---- MODULE Spec2Model ----
(***************************************************************************)
(* Backup Vault: the hierarchical selection model of src/src/webview.js    *)
(* (BackupTreeDataProvider) and the backup engine of fileOperations.js     *)
(* (FileOperations, src/unnamed/part_001).                                 *)
(*                                                                         *)
(* A path is the sequence of its components: <<"r","a","c.txt">> is r/a/c.     *)
(* "q.startsWith(p + path.sep)" is "p is a proper prefix of q".            *)
(***************************************************************************)
EXTENDS Integers, Sequences, FiniteSets, TLC

VARIABLES
    selectedItems,    \* BackupTreeDataProvider.selectedItems  (the included set)
    deselectedItems,  \* BackupTreeDataProvider.deselectedItems (the excluded set)
    packFiles,        \* BackupTreeDataProvider.packFiles
    workspaceRoot,    \* BackupTreeDataProvider.workspaceRoot.fullPath, NoNode while null
    settings,         \* workspaceState 'backupSettings' as last written by saveSettings
    refreshed,        \* TRUE when the last command ended by firing _onDidChangeTreeData
    last,             \* the last command: its kind, its node, the selection before it
    run,              \* children of one directory selected one by one from an empty selection
    opts,             \* the options object of the createBackup call in flight
    pc,               \* where that call stands
    out,              \* the filesystem under the output directory: [dirs, files]
    out0,             \* out as it was when the call started
    sourceHashes,     \* the source hash manifest of the call
    verified,         \* TRUE once _verifyHashesAgainstSources returned valid
    result,           \* "none", "success", or the message of the error thrown
    tempFiles,        \* FileOperations.tempFiles
    corrupted,        \* destination paths whose copied bytes were damaged on the way
    unreadable,       \* files whose read stream errors on every attempt to hash them
    prim,             \* the filesystem primitive being called
    attempt,          \* _retryOperation: the loop variable
    calls,            \* how many times the primitive has been invoked
    attemptErrors,    \* the errors of the failed invocations, in order
    rpc,              \* where the call stands: "call", "backoff", "returned", "thrown"
    thrown,           \* the error that reached the caller, or NoError
    sendOpts,         \* the options object of the sendFiles call in flight
    sendPc,           \* where that call stands: "start", "loop", "returned", "thrown"
    sendIdx,          \* the position of the for loop in sources
    sendFS,           \* the filesystem under the sending directory: [dirs, files]
    results,          \* { successCount, errorCount, errors }
    sendLog,          \* per source tried: whether it succeeded and what it wrote
    sendError,        \* the message of the error sendFiles threw, or "none"
    nameIn,           \* the arguments of one _calculateDestinationName call
    nameOut,          \* what that call returned, or NoName before it ran
    race,             \* two createBackup calls in flight: per call its options, position,
                      \* source manifest and result
    raceFS,           \* the filesystem under the output directory the two calls share
    fileCopy          \* one _copyFileStream call: where it stands, the source size read
                      \* at the start, the destination size read after the write, the
                      \* attempt of the retry loop, the error thrown

selVars == <<selectedItems, deselectedItems, packFiles, workspaceRoot, settings, refreshed,
             last, run>>

engVars == <<opts, pc, out, out0, sourceHashes, verified, result, tempFiles, corrupted,
             unreadable>>

retryVars == <<prim, attempt, calls, attemptErrors, rpc, thrown>>

sendVars == <<sendOpts, sendPc, sendIdx, sendFS, results, sendLog, sendError>>

nameVars == <<nameIn, nameOut>>

raceVars == <<race, raceFS>>

vars == <<selVars, engVars, retryVars, sendVars, nameVars, raceVars, fileCopy>>

\* what a command of the selection model / a step of createBackup leaves alone
exceptSel == <<engVars, retryVars, sendVars, nameVars, raceVars, fileCopy>>

exceptEng == <<selVars, retryVars, sendVars, nameVars, raceVars, fileCopy>>

exceptRetry == <<selVars, engVars, sendVars, nameVars, raceVars, fileCopy>>

exceptSend == <<selVars, engVars, retryVars, nameVars, raceVars, fileCopy>>

exceptRace == <<selVars, engVars, retryVars, sendVars, nameVars, fileCopy>>

exceptCopy == <<selVars, engVars, retryVars, sendVars, nameVars, raceVars>>

exceptName == <<selVars, engVars, retryVars, sendVars, raceVars, fileCopy>>

-----------------------------------------------------------------------------
(* The workspace tree on disk (fs.readdirSync / fs.statSync see this).       *)

Root == <<"r">>

Dirs == { <<"r">>, <<"r","a">>, <<"r","a","b">>, <<"r","e">> }

Files == { <<"r","a","b","x">>, <<"r","a","b","y">>, <<"r","a","c.txt">>,
           <<"r","d">>, <<"r","e","c.txt">> }

\* a second workspace, on a POSIX disk: next to the folder w/a lies a file
\* whose name is a\z (a backslash is an ordinary character of a name there)
PosixRoot == <<"w">>

PosixDirs == { <<"w">>, <<"w","a">> }

PosixFiles == { <<"w","a","x">>, <<"w","a\\z">>, <<"w","c">> }

Tree == Dirs \cup Files \cup PosixDirs \cup PosixFiles

NoNode == <<>>

isDirectory(p) == p \in Dirs \cup PosixDirs

\* the folders a workspace may be opened on
WorkspaceChoices == { <<"r">>, <<"r","a">> }

\* the items of the tree view: the workspace root and what lies under it
WorkspaceItems ==
    { p \in Tree : p = workspaceRoot
                      \/ (Len(p) > Len(workspaceRoot)
                            /\ SubSeq(p, 1, Len(workspaceRoot)) = workspaceRoot) }

\* item.parent: null (NoNode) for the workspace root
Parent(p) ==
    IF p = workspaceRoot \/ Len(p) <= 1 THEN NoNode ELSE SubSeq(p, 1, Len(p) - 1)

\* fs.readdirSync(dir): the entries directly under dir
readdir(dir) == { p \in Tree : Len(p) = Len(dir) + 1 /\ SubSeq(p, 1, Len(dir)) = dir }

\* q.startsWith(p + path.sep)
StartsWithSep(q, p) == Len(q) > Len(p) /\ SubSeq(q, 1, Len(p)) = p

\* q.startsWith(p + sep2), sep2 the separator of the other platform ("\\" where
\* path.sep is "/"): q continues the last component of p with a backslash
StartsWithSep2(q, p) ==
    /\ Len(p) >= 1 /\ Len(q) >= Len(p)
    /\ SubSeq(q, 1, Len(p) - 1) = SubSeq(p, 1, Len(p) - 1)
    /\ LET leaf == p[Len(p)]
           name == q[Len(p)] IN
       Len(name) > Len(leaf) /\ SubSeq(name, 1, Len(leaf) + 1) = leaf \o "\\"

\* q.startsWith(p + sep1) || q.startsWith(p + sep2)
StartsWithEitherSep(q, p) == StartsWithSep(q, p) \/ StartsWithSep2(q, p)

-----------------------------------------------------------------------------
(* Selection queries                                                        *)

RECURSIVE ParentChainHas(_, _)
ParentChainHas(sel, current) ==
    IF current = NoNode THEN FALSE
    ELSE IF current \in sel THEN TRUE
    ELSE ParentChainHas(sel, Parent(current))

\* variant: looks at the direct parent only
isParentSelectedDirectOnly(sel, item) == Parent(item) \in sel

isParentSelected(sel, item) == ParentChainHas(sel, Parent(item))

isItemSelected(sel, desel, item) ==
    \/ item \in sel
    \/ isParentSelected(sel, item) /\ item \notin desel

-----------------------------------------------------------------------------
(* The selection summary (SelectionIndicator)                               *)

\* the for loop of countSelectedItemsInDirectory over the entries items
RECURSIVE countEntries(_, _)
countEntries(desel, items) ==
    IF items = {} THEN 0
    ELSE LET itemPath == CHOOSE i \in items : TRUE IN
         (IF itemPath \notin desel
          THEN 1 + (IF isDirectory(itemPath) THEN countEntries(desel, readdir(itemPath))
                    ELSE 0)
          ELSE 0)
         + countEntries(desel, items \ {itemPath})

countSelectedItemsInDirectory(desel, dirPath) == countEntries(desel, readdir(dirPath))

\* the for loop of getSelectionCounts over the paths roots
RECURSIVE countRoots(_, _)
countRoots(desel, roots) ==
    IF roots = {} THEN [directFolders |-> 0, directFiles |-> 0, totalItems |-> 0]
    ELSE LET itemPath == CHOOSE i \in roots : TRUE
             rest == countRoots(desel, roots \ {itemPath}) IN
         IF itemPath \notin Tree THEN rest      \* statSync throws: skipped
         ELSE IF isDirectory(itemPath)
         THEN [rest EXCEPT !.directFolders = @ + 1,
                           !.totalItems = @ + countSelectedItemsInDirectory(desel, itemPath)]
         ELSE IF itemPath \notin desel
         THEN [rest EXCEPT !.directFiles = @ + 1, !.totalItems = @ + 1]
         ELSE rest

\* the numbers of "<n> folders, <n> files (<n> total)"; "None selected" is
\* shown for an empty selection
getSelectionCounts(sel, desel) == countRoots(desel, sel)

-----------------------------------------------------------------------------
(* Selection mutations, on a state st = [sel |-> ..., desel |-> ...]         *)

\* variant: individually selected children are kept
keepChildSelections(sel, item) == sel

removeChildSelections(sel, item) == { s \in sel : ~StartsWithEitherSep(s, item) }

\* variant: the exclusions below the folder stay
keepDeselectedItemsInFolder(desel, folder) == desel

clearDeselectedItemsInFolder(desel, folder) ==
    { d \in desel : ~StartsWithEitherSep(d, folder) }

RECURSIVE ScanFolder(_)
ScanFolder(folderPath) ==
    UNION { {itemPath} \cup (IF isDirectory(itemPath) THEN ScanFolder(itemPath) ELSE {})
            : itemPath \in readdir(folderPath) }

\* variant: no filesystem scan, the folder alone is excluded
addDeselectedFolderOnly(desel, folder) == desel \cup {folder}

addDeselectedItemsInFolder(desel, folder) == desel \cup {folder} \cup ScanFolder(folder)

\* variant: the folder's own exclusion entry is not dropped first
selectFolderKeepsOwnExclusion(st, folder) ==
    IF isParentSelected(st.sel, folder)
    THEN [sel |-> st.sel, desel |-> clearDeselectedItemsInFolder(st.desel, folder)]
    ELSE [sel |-> removeChildSelections(st.sel, folder) \cup {folder},
          desel |-> clearDeselectedItemsInFolder(st.desel, folder)]

selectFolder(st, folder) ==
    LET d1 == st.desel \ {folder} IN
    IF isParentSelected(st.sel, folder)
    THEN [sel |-> st.sel, desel |-> clearDeselectedItemsInFolder(d1, folder)]
    ELSE [sel |-> removeChildSelections(st.sel, folder) \cup {folder},
          desel |-> clearDeselectedItemsInFolder(d1, folder)]

getAllSiblings(item) ==
    IF Parent(item) = NoNode THEN {} ELSE readdir(Parent(item)) \ {item}

\* variant: the parent is never promoted
checkAndNeverSelectParent(st, file) == st

checkAndSelectParentIfAllSiblingsSelected(st, file) ==
    IF Parent(file) = NoNode THEN st
    ELSE LET siblings == getAllSiblings(file) IN
         IF (\A s \in siblings : s \in st.sel) /\ Cardinality(siblings) > 0
         THEN selectFolder(st, Parent(file))
         ELSE st

\* variant: the file's exclusion entry stays
selectFileKeepsExclusion(st, file) ==
    IF isParentSelected(st.sel, file)
    THEN st
    ELSE checkAndSelectParentIfAllSiblingsSelected(
             [sel |-> st.sel \cup {file}, desel |-> st.desel], file)

selectFile(st, file) ==
    LET d1 == st.desel \ {file} IN
    IF isParentSelected(st.sel, file)
    THEN [sel |-> st.sel, desel |-> d1]
    ELSE checkAndSelectParentIfAllSiblingsSelected(
             [sel |-> st.sel \cup {file}, desel |-> d1], file)

\* a check that never deselects the parent
checkAndKeepParent(st, parent) == st

checkAndDeselectParentIfNoChildrenSelected(st, parent) ==
    LET hasSelectedChildren ==
            \E child \in readdir(parent) : isItemSelected(st.sel, st.desel, child) IN
    IF ~hasSelectedChildren
    THEN [sel |-> st.sel \ {parent},
          desel |-> clearDeselectedItemsInFolder(st.desel, parent)]
    ELSE st

\* variant: a directly selected folder keeps the exclusions below it
deselectItemKeepsExclusions(st, item) ==
    IF item \notin st.sel
    THEN LET s1 == [sel |-> st.sel,
                    desel |-> IF isDirectory(item)
                              THEN addDeselectedItemsInFolder(st.desel, item)
                              ELSE st.desel \cup {item}] IN
         IF Parent(item) # NoNode /\ Parent(item) \in st.sel
         THEN checkAndDeselectParentIfNoChildrenSelected(s1, Parent(item))
         ELSE s1
    ELSE [sel |-> st.sel \ {item}, desel |-> st.desel]

deselectItem(st, item) ==
    LET wasDirectlySelected == item \in st.sel IN
    IF ~wasDirectlySelected
    THEN LET d1 == IF isDirectory(item)
                   THEN addDeselectedItemsInFolder(st.desel, item)
                   ELSE st.desel \cup {item}
             s1 == [sel |-> st.sel, desel |-> d1] IN
         IF Parent(item) # NoNode /\ Parent(item) \in st.sel
         THEN checkAndDeselectParentIfNoChildrenSelected(s1, Parent(item))
         ELSE s1
    ELSE [sel |-> st.sel \ {item},
          desel |-> IF isDirectory(item)
                    THEN clearDeselectedItemsInFolder(st.desel, item)
                    ELSE st.desel]

\* variant: every toggle deselects
toggleAlwaysDeselects(st, item) == deselectItem(st, item)

\* the (included, excluded) part of toggleSelection
toggleSets(st, item) ==
    IF isItemSelected(st.sel, st.desel, item)
    THEN deselectItem(st, item)
    ELSE IF isDirectory(item) THEN selectFolder(st, item) ELSE selectFile(st, item)

\* the packFiles part of toggleSelection
togglePackFiles(st, pack, item) ==
    LET wasSelected == isItemSelected(st.sel, st.desel, item)
        isRoot == item = workspaceRoot
        p1 == IF ~wasSelected /\ isRoot /\ ~pack THEN TRUE ELSE pack
        after == toggleSets(st, item) IN
    IF Cardinality(after.sel) > 1 /\ ~p1 THEN TRUE ELSE p1

-----------------------------------------------------------------------------
(* Persistence                                                              *)

existsSync(p) == p \in Tree

\* path.length: the characters of the components and of the separators
RECURSIVE pathLength(_)
pathLength(p) ==
    IF Len(p) = 0 THEN 0
    ELSE Len(p[Len(p)]) + (IF Len(p) > 1 THEN 1 ELSE 0) + pathLength(SubSeq(p, 1, Len(p) - 1))

\* the for loop over sortedPaths (shortest first) that fills result
RECURSIVE keepUnlessChild(_, _)
keepUnlessChild(remaining, kept) ==
    IF remaining = {} THEN kept
    ELSE LET path == CHOOSE p \in remaining :
                         \A q \in remaining : pathLength(p) <= pathLength(q)
             isChildOfSelected ==
                 \E selectedPath \in kept : StartsWithEitherSep(path, selectedPath) IN
         keepUnlessChild(remaining \ {path},
                         IF isChildOfSelected THEN kept ELSE kept \cup {path})

\* a filter that drops nothing
keepAllPaths(paths) == paths

removeParentChildDuplicates(paths) ==
    IF Cardinality(paths) <= 1 THEN paths
    ELSE keepUnlessChild(paths, {})

\* loadSettings runs before initializeWorkspace, and saveSettings after it
removeParentChildConflicts(paths, workspaceRootPath) ==
    IF Cardinality(paths) <= 1 THEN paths
    ELSE IF workspaceRootPath # NoNode /\ workspaceRootPath \in paths
         THEN {workspaceRootPath}
         ELSE removeParentChildDuplicates(paths)

\* a save that writes the default record
saveDefaults(sel, desel, pack) ==
    [sources |-> {}, deselectedSources |-> {}, packFiles |-> FALSE]

saveSettings(sel, desel, pack) ==
    [sources |-> removeParentChildConflicts({p \in sel : existsSync(p)}, workspaceRoot),
     deselectedSources |-> {p \in desel : existsSync(p)},
     packFiles |-> pack]

\* what the constructor makes of the stored record: workspaceRoot is still null
loadSettings(stored) ==
    [sel |-> removeParentChildConflicts({p \in stored.sources : existsSync(p)}, NoNode),
     desel |-> {p \in stored.deselectedSources : existsSync(p)},
     pack |-> stored.packFiles]

CurSt == [sel |-> selectedItems, desel |-> deselectedItems]

EmptySt == [sel |-> {}, desel |-> {}]

NoRun == [dir |-> NoNode, done |-> {}]

\* the state after the constructor: loadSettings over the default record,
\* then initializeWorkspace on the folder that is open
SelInit ==
    /\ workspaceRoot \in WorkspaceChoices
    /\ selectedItems = {}
    /\ deselectedItems = {}
    /\ packFiles = FALSE
    /\ settings = saveSettings({}, {}, FALSE)
    /\ refreshed = FALSE
    /\ last = [kind |-> "none", node |-> NoNode, before |-> EmptySt]
    /\ run = NoRun

\* the tree view of the workspace r, untouched
SelIdle == SelInit /\ workspaceRoot = Root

\* the same, with the workspace w open
PosixInit ==
    /\ workspaceRoot = PosixRoot
    /\ selectedItems = {}
    /\ deselectedItems = {}
    /\ packFiles = FALSE
    /\ settings = saveSettings({}, {}, FALSE)
    /\ refreshed = FALSE
    /\ last = [kind |-> "none", node |-> NoNode, before |-> EmptySt]
    /\ run = NoRun

\* command backup-vault.toggleSelection -> BackupTreeDataProvider.toggleSelection(item)
ToggleSelection(item) ==
    LET st == CurSt
        after == toggleSets(st, item)
        pack == togglePackFiles(st, packFiles, item)
        wasSelected == isItemSelected(st.sel, st.desel, item) IN
    /\ selectedItems' = after.sel
    /\ deselectedItems' = after.desel
    /\ packFiles' = pack
    /\ settings' = saveSettings(after.sel, after.desel, pack)
    /\ refreshed' = TRUE
    /\ last' = [kind |-> IF wasSelected THEN "deselect" ELSE "select",
                node |-> item, before |-> st]
    /\ run' = IF wasSelected \/ item = workspaceRoot THEN NoRun
              ELSE IF st = EmptySt THEN [dir |-> Parent(item), done |-> {item}]
              ELSE IF run.dir = Parent(item) /\ item \notin run.done
                   THEN [dir |-> run.dir, done |-> run.done \cup {item}]
                   ELSE NoRun
    /\ UNCHANGED workspaceRoot
    /\ UNCHANGED exceptSel

\* command backup-vault.selectNone
SelectNone ==
    /\ selectedItems' = {}
    /\ settings' = saveSettings({}, deselectedItems, packFiles)
    /\ refreshed' = TRUE
    /\ last' = [kind |-> "selectNone", node |-> NoNode, before |-> CurSt]
    /\ run' = NoRun
    /\ UNCHANGED <<deselectedItems, packFiles, workspaceRoot>>
    /\ UNCHANGED exceptSel

\* a togglePack that flips packFiles whatever is selected
togglePackAlways(sel, pack) == ~pack

\* the value togglePack gives packFiles: forced on while several items are
\* selected, flipped otherwise
togglePack(sel, pack) == IF Cardinality(sel) > 1 THEN TRUE ELSE ~pack

\* command backup-vault.togglePack
TogglePack ==
    /\ packFiles' = togglePack(selectedItems, packFiles)
    /\ settings' = saveSettings(selectedItems, deselectedItems, packFiles')
    /\ refreshed' = TRUE
    /\ last' = [kind |-> "togglePack", node |-> NoNode, before |-> CurSt]
    /\ run' = NoRun
    /\ UNCHANGED <<selectedItems, deselectedItems, workspaceRoot>>
    /\ UNCHANGED exceptSel

SelNext ==
    \/ \E item \in WorkspaceItems : ToggleSelection(item)
    \/ SelectNone
    \/ TogglePack

\* paths a stored record may hold: some exist, some were deleted since
StoredSources ==
    { <<"r">>, <<"r","a">>, <<"r","a","b">>, <<"r","a","b","x">>, <<"r","a","c.txt">>,
      <<"r","d">>, <<"r","ghost">> }

StoredDeselected == { <<"r","a","b">>, <<"r","a","b","x">>, <<"r","d">>, <<"r","ghost">> }

\* before the constructor: workspaceState holds a record of an earlier session
StoredInit ==
    /\ settings \in [sources : SUBSET StoredSources,
                      deselectedSources : SUBSET StoredDeselected,
                      packFiles : BOOLEAN]
    /\ workspaceRoot = NoNode
    /\ selectedItems = {}
    /\ deselectedItems = {}
    /\ packFiles = FALSE
    /\ refreshed = FALSE
    /\ last = [kind |-> "stored", node |-> NoNode, before |-> EmptySt]
    /\ run = NoRun

\* new BackupTreeDataProvider(context): loadSettings, then initializeWorkspace
LoadSettings ==
    /\ last.kind = "stored"
    /\ LET loaded == loadSettings(settings) IN
       /\ selectedItems' = loaded.sel
       /\ deselectedItems' = loaded.desel
       /\ packFiles' = loaded.pack
    /\ workspaceRoot' = Root
    /\ last' = [kind |-> "load", node |-> NoNode,
                before |-> [sel |-> settings.sources, desel |-> settings.deselectedSources]]
    /\ UNCHANGED <<settings, refreshed, run>>
    /\ UNCHANGED exceptSel

\* treeDataProvider.saveSettings() with the selection as loaded
SaveSettings ==
    /\ last.kind = "load"
    /\ settings' = saveSettings(selectedItems, deselectedItems, packFiles)
    /\ last' = [kind |-> "save", node |-> NoNode, before |-> last.before]
    /\ UNCHANGED <<selectedItems, deselectedItems, packFiles, workspaceRoot, refreshed, run>>
    /\ UNCHANGED exceptSel

LoadNext ==
    \/ LoadSettings
    \/ SaveSettings

-----------------------------------------------------------------------------
(* The backup engine (FileOperations).  A filesystem is a record            *)
(* [dirs |-> set of paths, files |-> function from paths to content].       *)

MaxSources == 2     \* longest sources list tried
MaxCorrupt == 1     \* most files damaged during one copy

Ghost == <<"r", "ghost">>     \* a selected path that no longer exists

Content(p) ==
    CASE p = <<"r","a","b","x">> -> 1
      [] p = <<"r","a","b","y">> -> 2
      [] p = <<"r","a","c.txt">>     -> 3
      [] p = <<"r","d">>     -> 4
      [] p = <<"r","e","c.txt">>     -> 5

SourceFS == [dirs |-> Dirs, files |-> [p \in Files |-> Content(p)]]

\* the bytes of whatever the output directory held before the call
OldContent == 9

\* same size, other bytes
Damaged(c) == c + 10

SHA256(c) == <<"sha256", c>>

EmptyMap == [k \in {} |-> 0]

access(fs, p) == p \in fs.dirs \/ p \in DOMAIN fs.files

statIsDirectory(fs, p) == p \in fs.dirs

readdirOf(fs, dir) ==
    { p \in fs.dirs \cup DOMAIN fs.files :
        Len(p) = Len(dir) + 1 /\ SubSeq(p, 1, Len(dir)) = dir }

basename(p) == p[Len(p)]

relative(from, to) == SubSeq(to, Len(from) + 1, Len(to))

\* path.parse(leaf): { name, ext }
\* the position of the last "." of s, 0 when it has none
lastDot(s) ==
    LET dots == {i \in 1..Len(s) : SubSeq(s, i, i) = "."} IN
    IF dots = {} THEN 0 ELSE CHOOSE i \in dots : \A j \in dots : j <= i

\* path.parse that never finds an extension
parseWithoutExtension(leaf) == [name |-> leaf, ext |-> ""]

\* path.parse(leaf) of a leaf name: the extension runs from the last "." to
\* the end, unless that "." opens the name or the name is ".."
pathParse(leaf) ==
    IF lastDot(leaf) <= 1 \/ leaf = ".."
    THEN [name |-> leaf, ext |-> ""]
    ELSE [name |-> SubSeq(leaf, 1, lastDot(leaf) - 1),
          ext  |-> SubSeq(leaf, lastDot(leaf), Len(leaf))]

RECURSIVE WalkFiles(_, _)
WalkFiles(fs, p) ==
    IF statIsDirectory(fs, p)
    THEN UNION { WalkFiles(fs, e) : e \in readdirOf(fs, p) }
    ELSE IF p \in DOMAIN fs.files THEN {p} ELSE {}

RECURSIVE WalkDirs(_, _)
WalkDirs(fs, p) ==
    IF statIsDirectory(fs, p)
    THEN {p} \cup UNION { WalkDirs(fs, e) : e \in readdirOf(fs, p) }
    ELSE {}

\* mkdir(p, { recursive: true })
mkdirRecursive(fs, p) ==
    [fs EXCEPT !.dirs = @ \cup { SubSeq(p, 1, n) : n \in 1..Len(p) }]

_removeRecursive(fs, p) ==
    LET gone == WalkFiles(fs, p) \cup WalkDirs(fs, p) IN
    [dirs |-> fs.dirs \ gone,
     files |-> [f \in (DOMAIN fs.files) \ gone |-> fs.files[f]]]

\* _copyItemRecursive over _copyFileStream: from filesystem src into fs; the
\* destination paths in bad receive damaged bytes of the right size
_copyItemRecursive(src, fs, source, destination, bad) ==
    LET newFiles == { destination \o relative(source, f) : f \in WalkFiles(src, source) }
        newDirs  == { destination \o relative(source, d) : d \in WalkDirs(src, source) }
        bytes(dp) == src.files[source \o relative(destination, dp)] IN
    [fs EXCEPT !.dirs = @ \cup newDirs,
               !.files = [dp \in newFiles |->
                             IF dp \in bad THEN Damaged(bytes(dp)) ELSE bytes(dp)] @@ @]

shouldExcludeFromHash(deselected, fullPath) ==
    \E deselectedPath \in deselected :
        deselectedPath = fullPath \/ StartsWithSep(deselectedPath, fullPath)

RECURSIVE hashRecursive(_, _, _)
hashRecursive(fs, currentPath, deselected) ==
    UNION { IF shouldExcludeFromHash(deselected, fullPath) THEN {}
            ELSE IF statIsDirectory(fs, fullPath)
                 THEN hashRecursive(fs, fullPath, deselected)
                 \* catch (error): "Skipping ... during hash calculation"
                 ELSE IF fullPath \in unreadable THEN {}
                 ELSE {fullPath}
            : fullPath \in readdirOf(fs, currentPath) }

_calculateDirectoryHashes(fs, dirPath, basePath, deselected) ==
    LET hashed == hashRecursive(fs, dirPath, deselected) IN
    [k \in { relative(basePath, f) : f \in hashed } |-> SHA256(fs.files[basePath \o k])]

\* the manifest entries one source contributes
sourceEntries(fs, source, isPacked, deselected) ==
    IF statIsDirectory(fs, source)
    THEN LET dirHashes == _calculateDirectoryHashes(fs, source, source, deselected) IN
         IF isPacked
         THEN [k \in { <<basename(source)>> \o r : r \in DOMAIN dirHashes } |->
                  dirHashes[SubSeq(k, 2, Len(k))]]
         ELSE dirHashes
    ELSE (<<basename(source)>> :> SHA256(fs.files[source]))

\* _calculateFileHash of a source that is a file rejects: rethrown
sourceHashFails(fs, sources) ==
    \E i \in 1..Len(sources) :
        ~statIsDirectory(fs, sources[i]) /\ sources[i] \in unreadable

RECURSIVE _calculateSourceHashes(_, _, _, _)
_calculateSourceHashes(fs, sources, isPacked, deselected) ==
    IF sources = <<>> THEN EmptyMap
    ELSE LET n == Len(sources) IN
         sourceEntries(fs, sources[n], isPacked, deselected)
             @@ _calculateSourceHashes(fs, SubSeq(sources, 1, n - 1), isPacked, deselected)

_verifyHashesAgainstSources(fs, srcHashes, destination, isPacked) ==
    IF ~access(fs, destination) THEN FALSE
    ELSE \E destHashes \in
                 { IF isPacked \/ statIsDirectory(fs, destination)
                   THEN _calculateDirectoryHashes(fs, destination, destination, {})
                   ELSE IF destination \in unreadable THEN EmptyMap
                   ELSE IF Cardinality(DOMAIN srcHashes) = 1
                        THEN [k \in DOMAIN srcHashes |-> SHA256(fs.files[destination])]
                        ELSE EmptyMap } :
            LET missingFiles == { k \in DOMAIN srcHashes : k \notin DOMAIN destHashes }
                mismatchedFiles == { k \in (DOMAIN srcHashes) \cap (DOMAIN destHashes) :
                                       destHashes[k] # srcHashes[k] }
                extraFiles == { k \in DOMAIN destHashes : k \notin DOMAIN srcHashes } IN
            missingFiles = {} /\ mismatchedFiles = {} /\ extraFiles = {}

-----------------------------------------------------------------------------
(* createBackup                                                             *)

OutputDir == <<"out">>

\* packing only on request
packOnlyWhenAsked(o) == o.packFiles

shouldPack(o) == Len(o.sources) > 1 \/ o.packFiles

\* a naming that appends suffix and version to the whole leaf
nameAfterExtension(sources, pack, folderName, suffix, version) ==
    IF pack
    THEN IF folderName = "" THEN "" ELSE folderName \o suffix \o version
    ELSE basename(sources[1]) \o suffix \o version

\* "" when _calculateDestinationName throws
_calculateDestinationName(sources, pack, folderName, suffix, version) ==
    IF pack
    THEN IF folderName = "" THEN "" ELSE folderName \o suffix \o version
    ELSE LET srcLeaf == basename(sources[1]) IN
         pathParse(srcLeaf).name \o suffix \o version \o pathParse(srcLeaf).ext

finalName(o) ==
    _calculateDestinationName(o.sources, shouldPack(o), o.folderName, o.suffix, o.version)

dst(o) == OutputDir \o <<finalName(o)>>

tempDir == OutputDir \o <<"._tmp">>

\* the input checks without the "Check for existing backup" step
validationErrorIgnoresExisting(o, fs) ==
    IF Len(o.sources) = 0 THEN "No sources specified"
    ELSE IF o.outputDir = "" THEN "No output directory specified"
    ELSE IF o.version = "" THEN "No version specified"
    ELSE IF \E i \in 1..Len(o.sources) : ~access(SourceFS, o.sources[i])
         THEN "Source not found"
    ELSE IF shouldPack(o) /\ o.folderName = "" THEN "Folder name is required when packing files"
    ELSE "none"

\* the error createBackup throws before it creates the temp directory, or "none"
validationError(o, fs) ==
    IF Len(o.sources) = 0 THEN "No sources specified"
    ELSE IF o.outputDir = "" THEN "No output directory specified"
    ELSE IF o.version = "" THEN "No version specified"
    ELSE IF \E i \in 1..Len(o.sources) : ~access(SourceFS, o.sources[i])
         THEN "Source not found"
    ELSE IF shouldPack(o) /\ o.folderName = "" THEN "Folder name is required when packing files"
    ELSE IF access(fs, dst(o)) /\ ~o.force THEN "A backup with version already exists"
    ELSE "none"

\* lines 93-135: the checks, with the mkdir of the output directory in between
Validate ==
    /\ pc = "start"
    /\ LET err == validationError(opts, out)
           reachedMkdir == err \notin {"No sources specified",
                                       "No output directory specified",
                                       "No version specified"} IN
       /\ out' = IF reachedMkdir THEN mkdirRecursive(out, OutputDir) ELSE out
       /\ result' = err
       /\ pc' = IF err = "none" THEN "checked" ELSE "done"
    /\ UNCHANGED <<opts, out0, sourceHashes, verified, tempFiles, corrupted, unreadable>>
    /\ UNCHANGED exceptEng

\* lines 138-142
CreateTemp ==
    /\ pc = "checked"
    /\ tempFiles' = tempFiles \cup {tempDir}
    /\ out' = mkdirRecursive(out, tempDir)
    /\ pc' = "temp"
    /\ UNCHANGED <<opts, out0, sourceHashes, verified, result, corrupted, unreadable>>
    /\ UNCHANGED exceptEng

\* _createPackedBackup / _createSingleBackup: source hashes BEFORE copying
HashSources ==
    /\ pc = "temp"
    /\ LET hashedSources == IF shouldPack(opts) THEN opts.sources
                            ELSE <<opts.sources[1]>> IN
       IF sourceHashFails(SourceFS, hashedSources)
       THEN /\ result' = "Failed to calculate hash for source"
            /\ pc' = "cleanup"
            /\ UNCHANGED sourceHashes
       ELSE /\ sourceHashes' = _calculateSourceHashes(SourceFS, hashedSources,
                                                      shouldPack(opts), opts.deselected)
            /\ pc' = "hashed"
            /\ UNCHANGED result
    /\ UNCHANGED <<opts, out, out0, verified, tempFiles, corrupted, unreadable>>
    /\ UNCHANGED exceptEng

\* "Handle existing destination if forcing overwrite"
RemoveExisting ==
    /\ pc = "hashed"
    /\ out' = IF opts.force /\ access(out, dst(opts))
              THEN _removeRecursive(out, dst(opts))
              ELSE out
    /\ pc' = "cleared"
    /\ UNCHANGED <<opts, out0, sourceHashes, verified, result, tempFiles, corrupted, unreadable>>
    /\ UNCHANGED exceptEng

RECURSIVE copySourcesToTemp(_, _, _)
copySourcesToTemp(fs, sources, bad) ==
    IF sources = <<>> THEN fs
    ELSE LET n == Len(sources)
             sofar == copySourcesToTemp(fs, SubSeq(sources, 1, n - 1), bad) IN
         _copyItemRecursive(SourceFS, sofar, sources[n],
                            tempDir \o <<basename(sources[n])>>, bad)

\* packed: every source into the temp directory; single: straight to the destination
copyTarget(o) == IF shouldPack(o) THEN tempDir ELSE dst(o)

copySources(fs, o, bad) ==
    IF shouldPack(o)
    THEN copySourcesToTemp(fs, o.sources, bad)
    ELSE _copyItemRecursive(SourceFS, fs, o.sources[1], dst(o), bad)

CopySources ==
    /\ pc = "cleared"
    /\ LET written == { dp \in DOMAIN copySources(out, opts, {}).files :
                          dp = copyTarget(opts) \/ StartsWithSep(dp, copyTarget(opts)) } IN
       \E bad \in SUBSET written :
          /\ Cardinality(bad) <= MaxCorrupt
          /\ out' = copySources(out, opts, bad)
          /\ corrupted' = bad
    /\ pc' = "copied"
    /\ UNCHANGED <<opts, out0, sourceHashes, verified, result, tempFiles, unreadable>>
    /\ UNCHANGED exceptEng

RECURSIVE removeDeselected(_, _, _, _)
removeDeselected(fs, deselected, source, target) ==
    IF deselected = {} THEN fs
    ELSE LET deselectedPath == CHOOSE d \in deselected : TRUE
             \* the filesystem after the other paths were handled, computed once
             others == { removeDeselected(fs, deselected \ {deselectedPath}, source, target) }
             fullPath == target \o relative(source, deselectedPath)
             removed(rest) ==
                 IF StartsWithSep(deselectedPath, source) \/ deselectedPath = source
                 THEN IF access(rest, fullPath) THEN _removeRecursive(rest, fullPath) ELSE rest
                 ELSE rest IN
         CHOOSE after \in { removed(rest) : rest \in others } : TRUE

RECURSIVE removeDeselectedPacked(_, _, _)
removeDeselectedPacked(fs, deselected, sources) ==
    IF sources = <<>> THEN fs
    ELSE LET n == Len(sources) IN
         removeDeselected(removeDeselectedPacked(fs, deselected, SubSeq(sources, 1, n - 1)),
                          deselected, sources[n], tempDir \o <<basename(sources[n])>>)

\* "Remove deselected items from temp directory" / "from destination"
RemoveDeselected ==
    /\ pc = "copied"
    /\ out' = IF shouldPack(opts)
              THEN removeDeselectedPacked(out, opts.deselected, opts.sources)
              ELSE IF statIsDirectory(out, dst(opts))
                   THEN removeDeselected(out, opts.deselected, opts.sources[1], dst(opts))
                   ELSE out
    /\ pc' = "pruned"
    /\ UNCHANGED <<opts, out0, sourceHashes, verified, result, tempFiles, corrupted, unreadable>>
    /\ UNCHANGED exceptEng

\* "Hash-based verification"
Verify ==
    /\ pc = "pruned"
    /\ \E valid \in { IF shouldPack(opts)
                       THEN _verifyHashesAgainstSources(out, sourceHashes, tempDir, TRUE)
                       ELSE _verifyHashesAgainstSources(out, sourceHashes, dst(opts), FALSE) } :
       /\ verified' = valid
       /\ result' = IF ~valid THEN "Hash verification failed"
                    ELSE IF shouldPack(opts) THEN result ELSE "success"
       /\ pc' = IF valid /\ shouldPack(opts) THEN "verified" ELSE "cleanup"
    /\ UNCHANGED <<opts, out, out0, sourceHashes, tempFiles, corrupted, unreadable>>
    /\ UNCHANGED exceptEng

\* fs.rename(tempDir, finalDst): the whole tree changes name
rename(fs, from, to) ==
    LET moved(p) == IF p = from \/ StartsWithSep(p, from) THEN to \o relative(from, p) ELSE p IN
    [dirs |-> { moved(d) : d \in fs.dirs },
     files |-> [q \in { moved(f) : f \in DOMAIN fs.files } |->
                  IF q = to \/ StartsWithSep(q, to)
                  THEN fs.files[from \o relative(to, q)]
                  ELSE fs.files[q]]]

\* _moveTempToFinal: rename, or copy + delete when rename fails
MoveTempToFinal ==
    /\ pc = "verified"
    /\ \E renameFails \in BOOLEAN :
          out' = IF renameFails \/ access(out, dst(opts))
                 THEN _removeRecursive(
                          _copyItemRecursive(out, out, tempDir, dst(opts), {}), tempDir)
                 ELSE rename(out, tempDir, dst(opts))
    /\ result' = "success"
    /\ pc' = "cleanup"
    /\ UNCHANGED <<opts, out0, sourceHashes, verified, tempFiles, corrupted, unreadable>>
    /\ UNCHANGED exceptEng

\* a cleanup that removes nothing
leaveTemp(fs) == fs

\* the temp directory is removed when fs.access finds it
_cleanupTemp(fs) == IF access(fs, tempDir) THEN _removeRecursive(fs, tempDir) ELSE fs

\* finally: _cleanupTemp
CleanupTemp ==
    /\ pc = "cleanup"
    /\ out' = _cleanupTemp(out)
    /\ tempFiles' = tempFiles \ {tempDir}
    /\ pc' = "done"
    /\ UNCHANGED <<opts, out0, sourceHashes, verified, result, corrupted, unreadable>>
    /\ UNCHANGED exceptEng

BackupNext ==
    \/ Validate
    \/ CreateTemp
    \/ HashSources
    \/ RemoveExisting
    \/ CopySources
    \/ RemoveDeselected
    \/ Verify
    \/ MoveTempToFinal
    \/ CleanupTemp

-----------------------------------------------------------------------------
(* The calls tried                                                          *)

SourceChoices == { <<"r">>, <<"r","a">>, <<"r","a","c.txt">>, <<"r","e","c.txt">>, Ghost }

RECURSIVE ListsUpTo(_)
ListsUpTo(n) ==
    IF n = 0 THEN { <<>> }
    ELSE LET shorter == ListsUpTo(n - 1) IN
         shorter \cup { Append(l, s) : l \in { m \in shorter : Len(m) = n - 1 },
                                        s \in SourceChoices }

SourceLists ==
    { l \in ListsUpTo(MaxSources) : \A i, j \in 1..Len(l) : i # j => l[i] # l[j] }

\* nothing excluded, one file excluded, a directory excluded with all below it
\* (what deselectItem leaves in deselectedItems), or a directory excluded alone
\* (its files were created after it was excluded)
DeselectedChoices ==
    { {} } \cup { {p} : p \in Files } \cup { {d} \cup ScanFolder(d) : d \in Dirs \ {Root} }
        \cup { { <<"r","a">> } }

\* (outputDir, version, folderName): all given, or one of them empty
OptionChoices ==
    { <<"out", "2", "Backup">>, <<"", "2", "Backup">>, <<"out", "", "Backup">>,
      <<"out", "2", "">> }

EmptyFS == [dirs |-> {}, files |-> EmptyMap]

\* the output directory before the call: missing, or present with an unrelated
\* file and possibly an earlier backup (a file or a directory) under the final name
InitialOut(o, existing) ==
    LET base == [dirs |-> {OutputDir},
                 files |-> (OutputDir \o <<"other.txt">> :> OldContent)] IN
    CASE existing = "missing" -> EmptyFS
      [] existing = "empty"   -> base
      [] existing = "file"    -> [dirs |-> base.dirs,
                                  files |-> (dst(o) :> OldContent) @@ base.files]
      [] existing = "dir"     -> [dirs |-> base.dirs \cup {dst(o)},
                                  files |-> ((dst(o) \o <<"old">>) :> OldContent) @@ base.files]

EngIdle ==
    /\ opts = [sources |-> <<>>, deselected |-> {}, packFiles |-> FALSE, force |-> FALSE,
               outputDir |-> "", version |-> "", folderName |-> "", suffix |-> "v"]
    /\ pc = "idle"
    /\ out = EmptyFS
    /\ out0 = EmptyFS
    /\ sourceHashes = EmptyMap
    /\ verified = FALSE
    /\ result = "none"
    /\ tempFiles = {}
    /\ corrupted = {}
    /\ unreadable = {}

\* the createBackup calls tried: the options object and the output directory
\* the call finds
BackupCalls ==
    LET options ==
            { [sources |-> srcs, deselected |-> des, packFiles |-> pack, force |-> force,
               outputDir |-> o[1], version |-> o[2], folderName |-> o[3], suffix |-> "v"] :
                  srcs \in SourceLists, des \in DeselectedChoices, pack \in BOOLEAN,
                  force \in BOOLEAN, o \in OptionChoices }
        \* a call that fails its input checks is tried once, not once per
        \* combination of the options it never reads
        tried == { o \in options :
                      validationError(o, EmptyFS) # "none" => o.deselected = {} /\ ~o.force }
        found(o) == { existing \in {"missing", "empty", "file", "dir"} :
                         existing \in {"file", "dir"} =>
                             Len(o.sources) > 0 /\ finalName(o) # "" } IN
    UNION { { [opts |-> o, out |-> InitialOut(o, existing)] : existing \in found(o) } :
              o \in tried }

BackupInit ==
    /\ \E call \in BackupCalls : opts = call.opts /\ out = call.out
    /\ out0 = out
    /\ pc = "start"
    /\ sourceHashes = EmptyMap
    /\ verified = FALSE
    /\ result = "none"
    /\ tempFiles = {}
    /\ corrupted = {}
    /\ unreadable = {}

\* most files of one job that cannot be read when they are hashed
MaxUnreadable == 2

\* the files a call hashes: those of its sources, and their copies
hashedFiles(o) ==
    LET staged == copySources(mkdirRecursive(EmptyFS, tempDir), o, {}) IN
    { f \in Files : \E i \in 1..Len(o.sources) : f = o.sources[i] \/ StartsWithSep(f, o.sources[i]) }
        \cup { dp \in DOMAIN staged.files : dp = copyTarget(o) \/ StartsWithSep(dp, copyTarget(o)) }

\* createBackup calls that pass the input checks, with some of the files
\* they hash unreadable (the read stream errors after every retry)
HashFailInit ==
    /\ \E call \in BackupCalls :
          /\ validationError(call.opts, call.out) = "none"
          /\ ~call.opts.force
          /\ call.opts.deselected = {}
          /\ opts = call.opts
          /\ out = call.out
    /\ unreadable \in { u \in SUBSET hashedFiles(opts) : Cardinality(u) \in 1..MaxUnreadable }
    /\ out0 = out
    /\ pc = "start"
    /\ sourceHashes = EmptyMap
    /\ verified = FALSE
    /\ result = "none"
    /\ tempFiles = {}
    /\ corrupted = {}

-----------------------------------------------------------------------------
(* The retry policy (_retryOperation, _isRetryableError) around one call of *)
(* a filesystem primitive.  Strings are JavaScript strings, character by    *)
(* character.                                                               *)

maxRetries == 3

\* no primitive is invoked more often than this in one call
MaxCalls == 6

UpperCase == "ABCDEFGHIJKLMNOPQRSTUVWXYZ"

LowerCase == "abcdefghijklmnopqrstuvwxyz"

\* one character, with its case changed when it is a letter of alphabet from
mapChar(c, from, to) ==
    IF \E i \in 1..Len(from) : SubSeq(from, i, i) = c
    THEN LET i == CHOOSE k \in 1..Len(from) : SubSeq(from, k, k) = c IN SubSeq(to, i, i)
    ELSE c

RECURSIVE mapString(_, _, _)
mapString(s, from, to) ==
    IF Len(s) = 0 THEN ""
    ELSE mapChar(SubSeq(s, 1, 1), from, to) \o mapString(SubSeq(s, 2, Len(s)), from, to)

toLowerCase(s) == mapString(s, UpperCase, LowerCase)

toUpperCase(s) == mapString(s, LowerCase, UpperCase)

\* String.prototype.includes
includes(s, pattern) ==
    \E i \in 1..(Len(s) - Len(pattern) + 1) : SubSeq(s, i, i + Len(pattern) - 1) = pattern

retryablePatterns ==
    { "EBUSY", "EMFILE", "ENFILE", "EAGAIN", "EINTR", "ETXTBSY",
      "resource busy", "temporarily unavailable" }

\* the verdict that retries nothing
neverRetryable(error) == FALSE

\* an error is [code, message]; code "" when the error has none
_isRetryableError(error) ==
    LET errorMessage == toLowerCase(error.message)
        errorCode == error.code IN
    \E pattern \in retryablePatterns :
        \/ includes(errorMessage, toLowerCase(pattern))
        \/ (errorCode # "" /\ includes(errorCode, toUpperCase(pattern)))

NoError == [code |-> "", message |-> ""]

\* the errors a primitive may fail with
ErrorChoices ==
    { [code |-> "EBUSY",  message |-> "EBUSY: resource busy or locked, open 'r/d'"],
      [code |-> "EMFILE", message |-> "EMFILE: too many open files, open 'r/d'"],
      [code |-> "EAGAIN", message |-> "EAGAIN: resource temporarily unavailable, read"],
      [code |-> "ENOENT", message |-> "ENOENT: no such file or directory, open 'r/d'"],
      [code |-> "ENOENT",
       message |-> "ENOENT: no such file or directory, open 'r/onceagain.txt'"],
      [code |-> "EACCES", message |-> "EACCES: permission denied, open 'r/d'"],
      [code |-> "", message |-> "File size mismatch: expected 3, got 2"] }

\* the filesystem primitives the jobs use
Primitives == { "stat", "readdir", "mkdir", "rename", "unlink", "rmdir", "copy", "hash" }

\* _copyFileStream and _calculateFileHash run inside _retryOperation; the
\* fs.stat, fs.readdir, fs.mkdir, fs.rename, fs.unlink and fs.rmdir calls do not
underRetry(p) == p \in { "copy", "hash" }

\* the retry loop that forgets attempt++
retrySameAttempt(a) == a

\* the for loop's attempt++
nextAttempt(a) == a + 1

RetryIdle ==
    /\ prim = "none"
    /\ attempt = 0
    /\ calls = 0
    /\ attemptErrors = <<>>
    /\ rpc = "idle"
    /\ thrown = NoError

RetryInit ==
    /\ prim \in Primitives
    /\ attempt = 0
    /\ calls = 0
    /\ attemptErrors = <<>>
    /\ rpc = "call"
    /\ thrown = NoError

\* one pass of the for loop of _retryOperation: the operation returns or fails
Attempt ==
    /\ rpc = "call"
    /\ underRetry(prim)
    /\ calls < MaxCalls
    /\ calls' = calls + 1
    /\ \/ /\ rpc' = "returned"
          /\ UNCHANGED <<attemptErrors, thrown>>
       \/ \E error \in ErrorChoices :
             /\ attemptErrors' = Append(attemptErrors, error)
             /\ IF ~_isRetryableError(error) \/ attempt = maxRetries
                THEN rpc' = "thrown" /\ thrown' = error
                ELSE rpc' = "backoff" /\ UNCHANGED thrown
    /\ UNCHANGED <<prim, attempt>>
    /\ UNCHANGED exceptRetry

\* the delay has elapsed: attempt++
Backoff ==
    /\ rpc = "backoff"
    /\ attempt' = nextAttempt(attempt)
    /\ rpc' = "call"
    /\ UNCHANGED <<prim, calls, attemptErrors, thrown>>
    /\ UNCHANGED exceptRetry

\* a primitive awaited directly: its error goes straight to the caller
DirectCall ==
    /\ rpc = "call"
    /\ ~underRetry(prim)
    /\ calls' = calls + 1
    /\ \/ /\ rpc' = "returned"
          /\ UNCHANGED <<attemptErrors, thrown>>
       \/ \E error \in ErrorChoices :
             /\ attemptErrors' = Append(attemptErrors, error)
             /\ rpc' = "thrown"
             /\ thrown' = error
    /\ UNCHANGED <<prim, attempt>>
    /\ UNCHANGED exceptRetry

RetryNext ==
    \/ Attempt
    \/ Backoff
    \/ DirectCall

-----------------------------------------------------------------------------
(* sendFiles: the transfer to the sending directory                         *)

SendingDir == <<"send">>

\* the files of the workspace in the order a walk meets them (readdir gives
\* the names of a directory in order)
WalkOrder ==
    << <<"r","a","b","x">>, <<"r","a","b","y">>, <<"r","a","c.txt">>, <<"r","d">>,
       <<"r","e","c.txt">> >>

NoFailure == 0

\* position of file f in the walk
walkRank(f) == CHOOSE i \in 1..Len(WalkOrder) : WalkOrder[i] = f

\* position at which the walk enters p (a file, or a directory with files below)
firstRank(p) ==
    CHOOSE i \in 1..Len(WalkOrder) :
        /\ WalkOrder[i] = p \/ StartsWithSep(WalkOrder[i], p)
        /\ \A j \in 1..(i - 1) : ~(WalkOrder[j] = p \/ StartsWithSep(WalkOrder[j], p))

\* the filter that lets everything through
excludeNothing(deselected, source) == FALSE

shouldExcludeFromSend(deselected, source) ==
    \E deselectedPath \in deselected :
        source = deselectedPath \/ StartsWithSep(source, deselectedPath)

\* the copy walks only as far as the file at position failAt, whose copy throws
reached(p, failAt) == failAt = NoFailure \/ firstRank(p) <= failAt

RECURSIVE _copyItemRecursiveFiltered(_, _, _, _, _)
RECURSIVE copyEntriesFiltered(_, _, _, _, _, _)
_copyItemRecursiveFiltered(fs, source, destination, deselected, failAt) ==
    IF shouldExcludeFromSend(deselected, source) \/ ~reached(source, failAt) THEN fs
    ELSE IF statIsDirectory(SourceFS, source)
    THEN copyEntriesFiltered(mkdirRecursive(fs, destination), readdirOf(SourceFS, source),
                             source, destination, deselected, failAt)
    ELSE IF walkRank(source) = failAt THEN fs
    ELSE [fs EXCEPT !.files = (destination :> SourceFS.files[source]) @@ @]

copyEntriesFiltered(fs, entries, source, destination, deselected, failAt) ==
    IF entries = {} THEN fs
    ELSE LET \* for (const entry of entries): this entry, then the others
             copyEntry(srcPath) ==
                 LET destPath == destination \o relative(source, srcPath) IN
                 copyEntriesFiltered(
                     _copyItemRecursiveFiltered(fs, srcPath, destPath, deselected, failAt),
                     entries \ {srcPath}, source, destination, deselected, failAt) IN
         CHOOSE after \in { copyEntry(srcPath) : srcPath \in { CHOOSE e \in entries : TRUE } } :
             TRUE

\* the files _copyItemRecursiveFiltered is to copy for one source
sendWanted(source, deselected) ==
    { f \in WalkFiles(SourceFS, source) : ~shouldExcludeFromSend(deselected, f) }

emptyResults == [successCount |-> 0, errorCount |-> 0, errors |-> <<>>]

\* results.successCount++
recordSuccess(res) ==
    [successCount |-> res.successCount + 1, errorCount |-> res.errorCount,
     errors |-> res.errors]

\* a catch block that counts the failure and keeps no message
recordFailureWithoutMessage(res, sourcePath, message) ==
    [successCount |-> res.successCount, errorCount |-> res.errorCount + 1,
     errors |-> res.errors]

\* results.errorCount++; results.errors.push(`Failed to send ${sourcePath}: ...`)
recordFailure(res, sourcePath, message) ==
    [successCount |-> res.successCount, errorCount |-> res.errorCount + 1,
     errors |-> Append(res.errors, <<"Failed to send", sourcePath, message>>)]

SendIdle ==
    /\ sendOpts = [sources |-> <<>>, sendingDir |-> "", deselected |-> {}]
    /\ sendPc = "idle"
    /\ sendIdx = 0
    /\ sendFS = EmptyFS
    /\ results = emptyResults
    /\ sendLog = <<>>
    /\ sendError = "none"

\* the sendFiles calls tried: the options object and the sending directory
\* the call finds
SendCalls ==
    LET options == { [sources |-> srcs, sendingDir |-> dir, deselected |-> des] :
                        srcs \in SourceLists, des \in DeselectedChoices, dir \in {"send", ""} }
        found == { EmptyFS,
                   [dirs |-> {SendingDir}, files |-> EmptyMap],
                   [dirs |-> {SendingDir},
                    files |-> (SendingDir \o <<"c.txt">> :> OldContent)] } IN
    \* a call that fails its input checks is tried once
    { call \in [sendOpts : options, sendFS : found] :
         (Len(call.sendOpts.sources) = 0 \/ call.sendOpts.sendingDir = ""
              \/ call.sendFS = EmptyFS)
             => call.sendOpts.deselected = {} }

SendInit ==
    /\ \E call \in SendCalls : sendOpts = call.sendOpts /\ sendFS = call.sendFS
    /\ sendPc = "start"
    /\ sendIdx = 0
    /\ results = emptyResults
    /\ sendLog = <<>>
    /\ sendError = "none"

\* lines 184-197: the input checks
SendValidate ==
    /\ sendPc = "start"
    /\ sendError' =
          IF Len(sendOpts.sources) = 0 THEN "No sources selected"
          ELSE IF sendOpts.sendingDir = "" THEN "No sending directory configured"
          ELSE IF ~access(sendFS, SendingDir) THEN "Sending directory does not exist"
          ELSE "none"
    /\ sendPc' = IF sendError' = "none" THEN "loop" ELSE "thrown"
    /\ sendIdx' = 1
    /\ UNCHANGED <<sendOpts, sendFS, results, sendLog>>
    /\ UNCHANGED exceptSend

\* one pass of the for loop, its try and its catch
SendSource ==
    /\ sendPc = "loop"
    /\ sendIdx <= Len(sendOpts.sources)
    /\ LET sourcePath == sendOpts.sources[sendIdx]
           destPath == SendingDir \o <<basename(sourcePath)>> IN
       IF ~access(SourceFS, sourcePath)
       THEN /\ results' = recordFailure(results, sourcePath, "ENOENT")
            /\ sendLog' = Append(sendLog, [source |-> sourcePath, ok |-> FALSE,
                                            before |-> sendFS, after |-> sendFS])
            /\ UNCHANGED sendFS
       ELSE \E failAt \in {NoFailure} \cup
                           { walkRank(f) : f \in sendWanted(sourcePath, sendOpts.deselected) } :
               /\ sendFS' = _copyItemRecursiveFiltered(sendFS, sourcePath, destPath,
                                                       sendOpts.deselected, failAt)
               /\ results' = IF failAt = NoFailure
                             THEN recordSuccess(results)
                             ELSE recordFailure(results, sourcePath, "EACCES")
               /\ sendLog' = Append(sendLog, [source |-> sourcePath,
                                               ok |-> (failAt = NoFailure),
                                               before |-> sendFS, after |-> sendFS'])
    /\ sendIdx' = sendIdx + 1
    /\ UNCHANGED <<sendOpts, sendPc, sendError>>
    /\ UNCHANGED exceptSend

\* return results
SendReturn ==
    /\ sendPc = "loop"
    /\ sendIdx > Len(sendOpts.sources)
    /\ sendPc' = "returned"
    /\ UNCHANGED <<sendOpts, sendIdx, sendFS, results, sendLog, sendError>>
    /\ UNCHANGED exceptSend

SendNext ==
    \/ SendValidate
    \/ SendSource
    \/ SendReturn

-----------------------------------------------------------------------------
(* The specifications                                                       *)

-----------------------------------------------------------------------------
(* The destination name as a function of its inputs: the engine's           *)
(* _calculateDestinationName and the run command's own computation.         *)

LeafChoices == {"file.txt", "archive.tar.gz", ".bashrc", "Makefile", "notes.",
                ".config.json", "c.txt"}

SuffixChoices == {"v", "_v", "", "."}

VersionChoices == {"2", "318", "v3.18"}

NoName == "<none>"

\* the run command: finalName of lines 905-916
runFinalName(sources, pack, folderName, suffix, version) ==
    LET shouldPackNow == Len(sources) > 1 \/ pack IN
    IF shouldPackNow
    THEN folderName \o suffix \o version
    ELSE LET srcLeaf == basename(sources[1]) IN
         pathParse(srcLeaf).name \o suffix \o version \o pathParse(srcLeaf).ext

NameIdle ==
    /\ nameIn = [sources |-> <<>>, pack |-> FALSE, folderName |-> "", suffix |-> "",
                 version |-> ""]
    /\ nameOut = NoName

NameInit ==
    /\ \E leaf \in LeafChoices, sfx \in SuffixChoices, ver \in VersionChoices,
          pack \in BOOLEAN :
          nameIn = [sources |-> << <<"a", leaf>> >>, pack |-> pack,
                    folderName |-> "Backup", suffix |-> sfx, version |-> ver]
    /\ nameOut = NoName

CalculateDestinationName ==
    /\ nameOut = NoName
    /\ nameOut' = _calculateDestinationName(nameIn.sources, nameIn.pack, nameIn.folderName,
                                            nameIn.suffix, nameIn.version)
    /\ UNCHANGED nameIn
    /\ UNCHANGED exceptName

NameNext == CalculateDestinationName

-----------------------------------------------------------------------------

\* no destination size read yet
NoSize == -1

\* no _copyFileStream call in flight
CopyIdle ==
    fileCopy = [pc |-> "idle", totalBytes |-> NoSize, destSize |-> NoSize, attempt |-> 0,
                error |-> NoError]

\* the two createBackup calls of the race model
Jobs == {1, 2}

\* no second call in flight
NoCall == [opts |-> <<>>, pc |-> "idle", sourceHashes |-> EmptyMap, result |-> "none"]

RaceIdle ==
    /\ race = [j \in Jobs |-> NoCall]
    /\ raceFS = EmptyFS

\* the selection model alone: no backup is running
SelSpecInit == SelInit /\ EngIdle /\ RetryIdle /\ SendIdle /\ NameIdle /\ RaceIdle /\ CopyIdle

SelSpec == SelSpecInit /\ [][SelNext]_vars

\* one createBackup call, the selection model at rest
BackupSpecInit == BackupInit /\ SelIdle /\ RetryIdle /\ SendIdle /\ NameIdle /\ RaceIdle /\ CopyIdle

BackupSpec == BackupSpecInit /\ [][BackupNext]_vars

\* the commands of the tree view on the workspace w
PosixSpecInit == PosixInit /\ EngIdle /\ RetryIdle /\ SendIdle /\ NameIdle /\ RaceIdle /\ CopyIdle

PosixSpec == PosixSpecInit /\ [][SelNext]_vars

\* one createBackup call during which some files cannot be hashed
HashFailSpecInit == HashFailInit /\ SelIdle /\ RetryIdle /\ SendIdle /\ NameIdle /\ RaceIdle /\ CopyIdle

HashFailSpec == HashFailSpecInit /\ [][BackupNext]_vars

\* one call of one filesystem primitive
RetrySpecInit == RetryInit /\ SelIdle /\ EngIdle /\ SendIdle /\ NameIdle /\ RaceIdle /\ CopyIdle

RetrySpec == RetrySpecInit /\ [][RetryNext]_vars

\* start-up over a stored record
LoadSpecInit == StoredInit /\ EngIdle /\ RetryIdle /\ SendIdle /\ NameIdle /\ RaceIdle /\ CopyIdle

LoadSpec == LoadSpecInit /\ [][LoadNext]_vars

\* one sendFiles call
SendSpecInit == SendInit /\ SelIdle /\ EngIdle /\ RetryIdle /\ NameIdle /\ RaceIdle /\ CopyIdle

SendSpec == SendSpecInit /\ [][SendNext]_vars

\* the longest source list of the jobs whose termination is checked
MaxJobSources == 1

\* a session: the constructor over a stored record, then commands on the tree
SessionNext ==
    \/ LoadSettings
    \/ \E item \in WorkspaceItems : last.kind # "stored" /\ ToggleSelection(item)
    \/ last.kind # "stored" /\ SelectNone

SessionSpec == LoadSpecInit /\ [][SessionNext]_vars

\* one job of any kind, every awaited step of which eventually returns: a
\* createBackup call, a sendFiles call, or one call of a filesystem primitive
JobInit == SelIdle /\ EngIdle /\ RetryIdle /\ SendIdle /\ NameIdle /\ RaceIdle /\ CopyIdle

NoJob == pc = "idle" /\ sendPc = "idle" /\ rpc = "idle"

\* fileOps.createBackup(options) is invoked
StartBackup ==
    /\ NoJob
    /\ \E call \in BackupCalls :
          /\ Len(call.opts.sources) <= MaxJobSources
          /\ opts' = call.opts
          /\ out' = call.out
          /\ out0' = call.out
    /\ pc' = "start"
    /\ UNCHANGED <<sourceHashes, verified, result, tempFiles, corrupted, unreadable>>
    /\ UNCHANGED exceptEng

\* fileOps.sendFiles(options) is invoked
StartSend ==
    /\ NoJob
    /\ \E call \in SendCalls :
          /\ Len(call.sendOpts.sources) <= MaxJobSources
          /\ sendOpts' = call.sendOpts
          /\ sendFS' = call.sendFS
    /\ sendPc' = "start"
    /\ UNCHANGED <<sendIdx, results, sendLog, sendError>>
    /\ UNCHANGED exceptSend

\* a filesystem primitive is invoked
StartCall ==
    /\ NoJob
    /\ prim' \in Primitives
    /\ rpc' = "call"
    /\ UNCHANGED <<attempt, calls, attemptErrors, thrown>>
    /\ UNCHANGED exceptRetry

JobNext ==
    \/ StartBackup
    \/ StartSend
    \/ StartCall
    \/ Validate
    \/ CreateTemp
    \/ HashSources
    \/ RemoveExisting
    \/ CopySources
    \/ RemoveDeselected
    \/ Verify
    \/ MoveTempToFinal
    \/ CleanupTemp
    \/ SendValidate
    \/ SendSource
    \/ SendReturn
    \/ Attempt
    \/ Backoff
    \/ DirectCall

JobSpec == JobInit /\ [][JobNext]_vars /\ WF_vars(JobNext)

-----------------------------------------------------------------------------
(* Two createBackup calls in flight on one output directory.  Each call has *)
(* a temp directory of its own (the name carries Date.now() and a random    *)
(* string); the destination and everything else under the output directory  *)
(* is shared.  Every awaited step of a call is one step.                    *)

tempDirOf(j) == OutputDir \o << IF j = 1 THEN "._tmp_1" ELSE "._tmp_2" >>

RECURSIVE copySourcesInto(_, _, _)
copySourcesInto(fs, sources, temp) ==
    IF sources = <<>> THEN fs
    ELSE LET n == Len(sources) IN
         _copyItemRecursive(SourceFS, copySourcesInto(fs, SubSeq(sources, 1, n - 1), temp),
                            sources[n], temp \o <<basename(sources[n])>>, {})

\* the pairs of calls tried: nothing forced, nothing excluded, one source
\* each, the same computed destination
RaceCalls ==
    LET options == { c.opts : c \in { b \in BackupCalls :
                        /\ validationError(b.opts, EmptyFS) = "none"
                        /\ ~b.opts.force /\ b.opts.deselected = {}
                        /\ Len(b.opts.sources) <= MaxJobSources } } IN
    { pair \in options \X options : dst(pair[1]) = dst(pair[2]) }

RaceInit ==
    /\ \E pair \in RaceCalls :
          /\ race = [j \in Jobs |-> [opts |-> pair[j], pc |-> "start",
                                     sourceHashes |-> EmptyMap, result |-> "none"]]
          /\ raceFS = InitialOut(pair[1], "empty")

\* lines 93-135 of call j: the checks, the existence check among them
RaceValidate(j) ==
    /\ race[j].pc = "start"
    /\ LET err == validationError(race[j].opts, raceFS) IN
       /\ raceFS' = mkdirRecursive(raceFS, OutputDir)
       /\ race' = [race EXCEPT ![j].result = err,
                               ![j].pc = IF err = "none" THEN "checked" ELSE "done"]
    /\ UNCHANGED exceptRace

\* lines 138-142
RaceCreateTemp(j) ==
    /\ race[j].pc = "checked"
    /\ raceFS' = mkdirRecursive(raceFS, tempDirOf(j))
    /\ race' = [race EXCEPT ![j].pc = "temp"]
    /\ UNCHANGED exceptRace

\* source hashes before copying
RaceHashSources(j) ==
    /\ race[j].pc = "temp"
    /\ race' = [race EXCEPT
                  ![j].sourceHashes =
                      _calculateSourceHashes(SourceFS,
                          IF shouldPack(race[j].opts) THEN race[j].opts.sources
                          ELSE <<race[j].opts.sources[1]>>,
                          shouldPack(race[j].opts), race[j].opts.deselected),
                  ![j].pc = "hashed"]
    /\ UNCHANGED raceFS
    /\ UNCHANGED exceptRace

\* packed: into the call's temp directory; single: straight to the destination
RaceCopySources(j) ==
    /\ race[j].pc = "hashed"
    /\ raceFS' = IF shouldPack(race[j].opts)
                 THEN copySourcesInto(raceFS, race[j].opts.sources, tempDirOf(j))
                 ELSE _copyItemRecursive(SourceFS, raceFS, race[j].opts.sources[1],
                                         dst(race[j].opts), {})
    /\ race' = [race EXCEPT ![j].pc = "copied"]
    /\ UNCHANGED exceptRace

\* "Hash-based verification"
RaceVerify(j) ==
    /\ race[j].pc = "copied"
    /\ \E valid \in { IF shouldPack(race[j].opts)
                       THEN _verifyHashesAgainstSources(raceFS, race[j].sourceHashes,
                                                        tempDirOf(j), TRUE)
                       ELSE _verifyHashesAgainstSources(raceFS, race[j].sourceHashes,
                                                        dst(race[j].opts), FALSE) } :
          race' = [race EXCEPT
                     ![j].result = IF ~valid THEN "Hash verification failed"
                                   ELSE IF shouldPack(race[j].opts) THEN @ ELSE "success",
                     ![j].pc = IF valid /\ shouldPack(race[j].opts) THEN "verified"
                               ELSE "cleanup"]
    /\ UNCHANGED raceFS
    /\ UNCHANGED exceptRace

\* _moveTempToFinal: fs.rename fails on a destination that is there and not
\* empty, and on another device; then copy + delete
RaceMoveTempToFinal(j) ==
    /\ race[j].pc = "verified"
    /\ \E renameFails \in BOOLEAN :
          raceFS' = IF renameFails \/ access(raceFS, dst(race[j].opts))
                    THEN _removeRecursive(
                             _copyItemRecursive(raceFS, raceFS, tempDirOf(j),
                                                dst(race[j].opts), {}), tempDirOf(j))
                    ELSE rename(raceFS, tempDirOf(j), dst(race[j].opts))
    /\ race' = [race EXCEPT ![j].result = "success", ![j].pc = "cleanup"]
    /\ UNCHANGED exceptRace

\* finally: _cleanupTemp(tempDir)
RaceCleanupTemp(j) ==
    /\ race[j].pc = "cleanup"
    /\ raceFS' = IF access(raceFS, tempDirOf(j)) THEN _removeRecursive(raceFS, tempDirOf(j))
                 ELSE raceFS
    /\ race' = [race EXCEPT ![j].pc = "done"]
    /\ UNCHANGED exceptRace

RaceNext ==
    \/ \E j \in Jobs : RaceValidate(j)
    \/ \E j \in Jobs : RaceCreateTemp(j)
    \/ \E j \in Jobs : RaceHashSources(j)
    \/ \E j \in Jobs : RaceCopySources(j)
    \/ \E j \in Jobs : RaceVerify(j)
    \/ \E j \in Jobs : RaceMoveTempToFinal(j)
    \/ \E j \in Jobs : RaceCleanupTemp(j)

RaceSpecInit == RaceInit /\ SelIdle /\ EngIdle /\ RetryIdle /\ SendIdle /\ NameIdle /\ CopyIdle

RaceSpec == RaceSpecInit /\ [][RaceNext]_vars

-----------------------------------------------------------------------------
(* _copyFileStream: one file copied through a read stream piped into a      *)
(* write stream, inside _retryOperation.  Sizes are byte counts.            *)

MaxSize == 3

Sizes == 0..MaxSize

Digits == "0123456789"

\* `${n}` of a size
sizeString(n) ==
    IF n < 10 THEN SubSeq(Digits, n + 1, n + 1)
    ELSE SubSeq(Digits, (n \div 10) + 1, (n \div 10) + 1)
             \o SubSeq(Digits, (n % 10) + 1, (n % 10) + 1)

\* a check that accepts any size
sizeCheckSkipped(totalBytes, size) == NoError

\* "Verify file size": the error thrown in the finish handler, or NoError
sizeCheck(totalBytes, size) ==
    IF size # totalBytes
    THEN [code |-> "",
          message |-> "File size mismatch: expected " \o sizeString(totalBytes)
                          \o ", got " \o sizeString(size)]
    ELSE NoError

\* the errors the two streams and statSync may raise
StreamErrors == { e \in ErrorChoices : e.code # "" }

\* catch (error) of _retryOperation for this call
copyAfterError(c, error) ==
    IF ~_isRetryableError(error) \/ c.attempt = maxRetries
    THEN [c EXCEPT !.pc = "thrown", !.error = error]
    ELSE [c EXCEPT !.pc = "open", !.attempt = nextAttempt(@),
                   !.totalBytes = NoSize, !.destSize = NoSize]

CopyInit ==
    fileCopy = [pc |-> "open", totalBytes |-> NoSize, destSize |-> NoSize, attempt |-> 0,
                error |-> NoError]

\* createReadStream, createWriteStream, fsSync.statSync(source).size
CopyOpen ==
    /\ fileCopy.pc = "open"
    /\ \/ \E size \in Sizes :
             fileCopy' = [fileCopy EXCEPT !.pc = "piping", !.totalBytes = size]
       \/ \E error \in StreamErrors : fileCopy' = copyAfterError(fileCopy, error)
    /\ UNCHANGED exceptCopy

\* readStream.pipe(writeStream) until 'finish' or an 'error' of either
\* stream; the bytes that reach the disk need not be totalBytes (the source
\* is written to meanwhile, the disk cuts the file short)
CopyPipe ==
    /\ fileCopy.pc = "piping"
    /\ \/ fileCopy' = [fileCopy EXCEPT !.pc = "finished"]
       \/ \E error \in StreamErrors : fileCopy' = copyAfterError(fileCopy, error)
    /\ UNCHANGED exceptCopy

\* the finish handler: fs.stat(destination), then the size check
CopyFinish ==
    /\ fileCopy.pc = "finished"
    /\ \/ \E size \in Sizes :
             LET error == sizeCheck(fileCopy.totalBytes, size)
                 read == [fileCopy EXCEPT !.destSize = size] IN
             fileCopy' = IF error = NoError THEN [read EXCEPT !.pc = "resolved"]
                         ELSE copyAfterError(read, error)
       \/ \E error \in StreamErrors : fileCopy' = copyAfterError(fileCopy, error)
    /\ UNCHANGED exceptCopy

CopyNext ==
    \/ CopyOpen
    \/ CopyPipe
    \/ CopyFinish

CopySpecInit ==
    CopyInit /\ SelIdle /\ EngIdle /\ RetryIdle /\ SendIdle /\ NameIdle /\ RaceIdle

CopySpec == CopySpecInit /\ [][CopyNext]_vars

\* one destination-name computation
NameSpecInit == NameInit /\ SelIdle /\ EngIdle /\ RetryIdle /\ SendIdle /\ RaceIdle /\ CopyIdle

NameSpec == NameSpecInit /\ [][NameNext]_vars

-----------------------------------------------------------------------------
(* Properties of createBackup                                               *)

Done == pc = "done"

Succeeded == Done /\ result = "success"

ExistsError == "A backup with version already exists"

ValidationErrors ==
    { "No sources specified", "No output directory specified", "No version specified",
      "Source not found", "Folder name is required when packing files", ExistsError }

Under(p, top) == p = top \/ StartsWithSep(p, top)

\* the call got as far as computing its destination path
HasDst == Len(opts.sources) > 0 /\ finalName(opts) # ""

IsExcluded(f) == \E d \in opts.deselected : Under(f, d)

\* the files the job is asked to back up
WantedFiles ==
    { f \in Files : (\E i \in 1..Len(opts.sources) : Under(f, opts.sources[i]))
                    /\ ~IsExcluded(f) }

FilesUnder(fs, top) == { f \in DOMAIN fs.files : Under(f, top) }

DestFiles == FilesUnder(out, dst(opts))

\* the manifest key of a destination file
KeyOf(dp) ==
    IF dp = dst(opts) THEN <<basename(opts.sources[1])>> ELSE relative(dst(opts), dp)

\* something is under the final name that was not there when the call started
NewUnderFinal ==
    \/ \E dp \in DestFiles : dp \notin DOMAIN out0.files \/ out0.files[dp] # out.files[dp]
    \/ \E d \in out.dirs : Under(d, dst(opts)) /\ d \notin out0.dirs

\* the destination the call found is still there, bytes and all
OldDestinationIntact ==
    /\ \A f \in FilesUnder(out0, dst(opts)) :
          f \in DOMAIN out.files /\ out.files[f] = out0.files[f]
    /\ \A d \in out0.dirs : Under(d, dst(opts)) => d \in out.dirs

\* C1: when createBackup returns success, every file under the selected roots
\* that is not excluded is in the destination with the digest the source had,
\* and the destination holds no file that is absent from the source manifest.
C1_SuccessMeansFaithfulCopy ==
    Succeeded =>
        /\ \A f \in WantedFiles :
              \E dp \in DestFiles : SHA256(out.files[dp]) = SHA256(Content(f))
        /\ \A dp \in DestFiles : KeyOf(dp) \in DOMAIN sourceHashes

\* C2: nothing new is under the final name until hash verification has
\* passed (so a job that fails verification leaves nothing new there).
C2_NothingNewBeforeVerified ==
    (HasDst /\ NewUnderFinal) => verified

\* C3: single-source, force, existing destination: the existing destination
\* is deleted only after the new copy has passed hash verification.
C3_OldKeptUntilVerified ==
    (HasDst /\ ~shouldPack(opts) /\ opts.force /\ access(out0, dst(opts)) /\ ~verified)
        => OldDestinationIntact

\* a packed job with force over a destination that exists already
PackedOverExisting ==
    /\ HasDst
    /\ shouldPack(opts)
    /\ opts.force
    /\ access(out0, dst(opts))

\* C30: in a packed backup with force = true and an existing destination, if
\* the job fails before the final move (a copy error or a hash verification
\* failure) the pre-existing destination still exists with its original
\* content: it is cleared only at rename time, after the staged content is
\* verified.
C30_PackedFailureKeepsOld ==
    /\ (PackedOverExisting /\ Done /\ result = "Hash verification failed")
           => OldDestinationIntact
    /\ (PackedOverExisting /\ pc \in {"cleared", "copied", "pruned"}) => OldDestinationIntact

\* where a packed backup puts file f of root source
PackedPlace(source, f) == dst(opts) \o <<basename(source)>> \o relative(source, f)

\* C31: in a successful packed backup of several roots, for every root and
\* every non-excluded file under it the destination holds a file with that
\* file's content at leafName(root)/relative path, also when two roots in
\* different directories share the same leaf name.
C31_EveryRootKeepsItsFiles ==
    (Succeeded /\ Len(opts.sources) > 1) =>
        \A i \in 1..Len(opts.sources) :
            \A f \in Files :
                (Under(f, opts.sources[i]) /\ ~IsExcluded(f)) =>
                    /\ PackedPlace(opts.sources[i], f) \in DOMAIN out.files
                    /\ out.files[PackedPlace(opts.sources[i], f)] = Content(f)

ThreeDown == <<"r","a","b","x">>

\* C4: backing up a directory with exactly one file excluded three levels
\* below it succeeds, and the output holds every other file and not that one.
C4_NestedExclusionBackup ==
    (Done /\ opts.sources = <<Root>> /\ opts.deselected = {ThreeDown}
        /\ corrupted = {} /\ result \notin ValidationErrors)
        => /\ result = "success"
           /\ LET top == IF shouldPack(opts) THEN dst(opts) \o <<"r">> ELSE dst(opts) IN
              DestFiles = { top \o relative(Root, f) : f \in Files \ {ThreeDown} }

\* C10: when the destination exists and force is false, createBackup throws
\* the destination-already-exists error and the output directory is as it
\* was: no staging directory, nothing copied, nothing deleted.
C10_ExistingWithoutForce ==
    (pc # "start" /\ ~opts.force /\ HasDst /\ access(out0, dst(opts))
        /\ validationError(opts, EmptyFS) = "none")
        => /\ Done
           /\ result = ExistsError
           /\ out = out0
           /\ tempFiles = {}
           /\ ~access(out, tempDir)

C10_Witness ==
    /\ Done /\ result = ExistsError
    /\ ~opts.force /\ access(out0, dst(opts))
    /\ Len(opts.sources) = 2 /\ opts.deselected # {}

InputErrors == ValidationErrors \ {ExistsError}

\* C11: each validation failure of createBackup (no sources, no output
\* directory, empty version, missing source, missing folder name when packing)
\* is thrown before any filesystem mutation: the output tree is as it was.
C11_ValidationBeforeMutation ==
    (Done /\ result \in InputErrors) => out = out0

\* C18: once createBackup has returned or thrown after creating its staging
\* directory, the staging directory is gone and is not in tempFiles, whether
\* the rename consumed it or cleanup removed it.
C18_StagingGoneAfterJob ==
    (Done /\ result \notin ValidationErrors) =>
        /\ ~access(out, tempDir)
        /\ \A p \in out.dirs \cup DOMAIN out.files : ~Under(p, tempDir)
        /\ tempDir \notin tempFiles

C18_Witness ==
    /\ Done
    /\ result = "Hash verification failed"
    /\ shouldPack(opts) /\ corrupted # {}
    /\ ~access(out, tempDir) /\ tempFiles = {}

StagedFiles == FilesUnder(out, tempDir)

\* C21: with two or more sources and packFiles = false createBackup takes the
\* packed path (staging, then one folder holding a copy of each source under
\* its leaf name) and names the destination folderName + suffix + version,
\* with no extension.
C21_SeveralSourcesArePacked ==
    (Len(opts.sources) > 1 /\ ~opts.packFiles /\ pc \notin {"idle", "start"}
        /\ result \notin ValidationErrors)
        => /\ dst(opts) = OutputDir \o <<opts.folderName \o opts.suffix \o opts.version>>
           /\ finalName(opts) = "Backupv2"
           /\ pc = "copied" => StagedFiles # {}
           /\ pc \in {"copied", "pruned", "verified"} => DestFiles \subseteq DOMAIN out0.files
           /\ Succeeded =>
                  /\ statIsDirectory(out, dst(opts))
                  /\ \A dp \in DestFiles :
                        \E i \in 1..Len(opts.sources) :
                            relative(dst(opts), dp)[1] = basename(opts.sources[i])

C21_Witness ==
    /\ Succeeded
    /\ Len(opts.sources) = 2 /\ ~opts.packFiles
    /\ opts.sources[1] \in Dirs /\ opts.sources[2] \in Files
    /\ statIsDirectory(out, <<"out", "Backupv2">>)

\* the source manifest has been computed
Hashed == pc \notin {"idle", "start", "checked", "temp"} /\ result \notin ValidationErrors

\* the manifest key of file f under the selected root
ManifestKey(root, f) ==
    IF root \in Files THEN <<basename(root)>>
    ELSE IF shouldPack(opts) THEN <<basename(root)>> \o relative(root, f)
    ELSE relative(root, f)

ExpectedKeys ==
    UNION { { ManifestKey(opts.sources[i], f) :
                f \in { g \in Files : Under(g, opts.sources[i]) /\ ~IsExcluded(g) } } :
            i \in 1..Len(opts.sources) }

\* C12: the source hash manifest has a key for every regular file under each
\* selected root that is neither an excluded path nor under one, and no other
\* key; a directory that only contains an excluded path is still traversed.
C12_ManifestCoversAllButExcluded ==
    Hashed => DOMAIN sourceHashes = ExpectedKeys

-----------------------------------------------------------------------------
(* Termination of the jobs.                                                 *)

BackupFinished == pc = "done" /\ result # "none"

SendFinished ==
    \/ sendPc = "returned" /\ results.successCount + results.errorCount = Len(sendOpts.sources)
    \/ sendPc = "thrown" /\ sendError # "none"

CallFinished == rpc = "returned" \/ (rpc = "thrown" /\ thrown # NoError)

JobFinished ==
    \/ BackupFinished
    \/ SendFinished
    \/ CallFinished

\* C24: every createBackup and sendFiles invocation, and every call of a
\* filesystem primitive under _retryOperation, eventually finishes with a
\* result or an error, given that each awaited step eventually returns; a
\* failing operation is invoked at most maxRetries + 1 times.
C24_EveryJobFinishes == (<>JobFinished) /\ [](calls <= maxRetries + 1)

C24_Witness ==
    /\ JobFinished
    /\ underRetry(prim) /\ rpc = "thrown" /\ calls = maxRetries + 1
    /\ \A i \in 1..Len(attemptErrors) : _isRetryableError(attemptErrors[i])

-----------------------------------------------------------------------------
(* Properties of the destination name.                                      *)

Named == nameOut # NoName

SingleUnpacked == Named /\ Len(nameIn.sources) = 1 /\ ~nameIn.pack

LeafOf(source) == source[Len(source)]

\* where the extension of a leaf name starts: at its last ".", provided
\* something stands before it
ExtensionStart(leaf) ==
    {k \in 2..Len(leaf) : /\ SubSeq(leaf, k, k) = "."
                          /\ \A j \in (k + 1)..Len(leaf) : SubSeq(leaf, j, j) # "."}

Stem(leaf) ==
    IF ExtensionStart(leaf) = {} THEN leaf
    ELSE SubSeq(leaf, 1, (CHOOSE k \in ExtensionStart(leaf) : TRUE) - 1)

Extension(leaf) ==
    IF ExtensionStart(leaf) = {} THEN ""
    ELSE SubSeq(leaf, CHOOSE k \in ExtensionStart(leaf) : TRUE, Len(leaf))

\* C22: with exactly one source and packing not forced, the destination name
\* is stem + suffix + version + extension of the source's leaf name, for every
\* leaf name, suffix and version, in the engine and in the run command alike:
\* the version stands before the extension, never after it.
C22_VersionBeforeExtension ==
    SingleUnpacked =>
        LET leaf == LeafOf(nameIn.sources[1]) IN
        /\ Stem(leaf) \o Extension(leaf) = leaf
        /\ nameOut = Stem(leaf) \o nameIn.suffix \o nameIn.version \o Extension(leaf)
        /\ runFinalName(nameIn.sources, nameIn.pack, nameIn.folderName, nameIn.suffix,
                        nameIn.version) = nameOut
        /\ Extension(leaf) # "" =>
               SubSeq(nameOut, Len(nameOut) - Len(Extension(leaf)) + 1, Len(nameOut))
                   = Extension(leaf)

C22_Witness ==
    /\ SingleUnpacked
    /\ LeafOf(nameIn.sources[1]) = "archive.tar.gz"
    /\ nameIn.suffix = "_v" /\ nameIn.version = "318"
    /\ nameOut = "archive.tar_v318.gz"

FileTxtV2 ==
    /\ SingleUnpacked
    /\ nameIn.sources = << <<"a", "file.txt">> >>
    /\ nameIn.suffix = "v" /\ nameIn.version = "2"

\* C23 as stated: for sources = ["/a/file.txt"], suffix "v", version "2" and no
\* packing, the engine's destination name is file_v2.txt.
C23_Original_FileUnderscoreV2 == FileTxtV2 => nameOut = "file_v2.txt"

\* C23: for sources = ["/a/file.txt"], suffix "v", version "2" and no packing,
\* the engine's destination name is filev2.txt: the suffix is inserted as
\* given, without a separator, and the version comes before the extension.
C23_FileV2Txt == FileTxtV2 => nameOut = "filev2.txt"

C23_Witness == FileTxtV2 /\ nameOut = "filev2.txt" /\ nameOut # "file.txtv2"

-----------------------------------------------------------------------------
(* Properties of the selection model                                        *)

IsToggle == last.kind \in {"select", "deselect"}

Descendants(p) == { q \in Tree : StartsWithSep(q, p) }

Covered(sel, p) == \E a \in sel : StartsWithSep(p, a)

Reported(st) == { p \in Tree : isItemSelected(st.sel, st.desel, p) }

\* C5: isItemSelected(P) is true exactly when P is in included, or a strict
\* ancestor of P is in included and P is not in excluded (invariant I2).
C5_InclusionRule ==
    \A p \in Tree :
        isItemSelected(selectedItems, deselectedItems, p)
            <=> (p \in selectedItems
                 \/ (Covered(selectedItems, p) /\ p \notin deselectedItems))

C5_Witness ==
    \E p, q \in Tree :
        /\ p \notin selectedItems /\ Parent(p) \notin selectedItems
        /\ isItemSelected(selectedItems, deselectedItems, p)
        /\ q \in deselectedItems /\ Covered(selectedItems, q)
        /\ ~isItemSelected(selectedItems, deselectedItems, q)

\* C6: no two paths of included are ancestor and descendant (invariant I1),
\* after any sequence of toggles and selectNone from the empty selection.
C6_NoNestedIncluded ==
    \A p, q \in selectedItems : ~StartsWithSep(p, q)

C6_Witness ==
    /\ last.kind = "select"
    /\ \E q \in last.before.sel : StartsWithSep(q, last.node) \/ Parent(q) \in selectedItems
    /\ Cardinality(selectedItems) >= 2

\* C7: right after a toggle selected a directory D, every descendant of D is
\* reported included; toggling any descendant X of D next makes X and X's
\* descendants not included and leaves every other descendant of D included.
C7_SelectThenExclude ==
    (last.kind = "select" /\ isDirectory(last.node)) =>
        LET D == last.node IN
        /\ \A y \in Descendants(D) : y \in Reported(CurSt)
        /\ \A X \in Descendants(D) :
              LET s2 == toggleSets(CurSt, X) IN
              \A y \in Descendants(D) :
                  (y \in Reported(s2)) <=> ~(y = X \/ StartsWithSep(y, X))

C7_Witness ==
    /\ last.kind = "deselect"
    /\ isDirectory(last.node)
    /\ Parent(last.node) \in selectedItems
    /\ Descendants(last.node) # {}
    /\ Descendants(last.node) \cap Reported(CurSt) = {}
    /\ Reported(CurSt) \cap Descendants(Parent(last.node)) # {}
    /\ last.before.desel = {}

FoldsUp(st, n) ==
    /\ n \in Files /\ ~Covered(st.sel, n)
    /\ getAllSiblings(n) # {} /\ getAllSiblings(n) \subseteq st.sel

EmptiesParent(st, n) ==
    /\ Parent(n) # NoNode /\ Parent(n) \in st.sel
    /\ \A c \in getAllSiblings(n) : ~isItemSelected(st.sel, st.desel, c)

Restorable(st, n) ==
    /\ Descendants(n) \cap st.sel = {}
    /\ IF n \in st.desel
       THEN Covered(st.sel, n) /\ Descendants(n) \subseteq st.desel
       ELSE Descendants(n) \cap st.desel = {}
    /\ ~FoldsUp(st, n)
    /\ ~EmptiesParent(st, n)

RunComplete == run.dir # NoNode /\ run.done = readdir(run.dir)

FoldedInto(P) ==
    /\ P \in selectedItems
    /\ readdir(P) \cap selectedItems = {}
    /\ toggleSets(CurSt, P).sel = {}

Existing(paths) == { p \in paths : existsSync(p) }

\* the existing paths that have no strict ancestor among the existing paths
TopMost(paths) == { p \in Existing(paths) : ~\E q \in Existing(paths) : StartsWithSep(p, q) }

RootEntered ==
    /\ IsToggle
    /\ workspaceRoot \in selectedItems
    /\ workspaceRoot \notin last.before.sel

\* C25: whenever a toggle causes the tree root to enter included, by toggling
\* the root itself or by fold-up from its children, packFiles is true when
\* the toggle returns.
C25_RootIncludedMeansPacked == RootEntered => packFiles

\* C26: after every toggleSelection and every togglePack command, if included
\* holds more than one path then packFiles is true: packing cannot be switched
\* off while several items are selected.
C26_SeveralSelectedMeansPacked ==
    (last.kind \in {"select", "deselect", "togglePack"} /\ Cardinality(selectedItems) > 1)
        => /\ packFiles
           /\ settings.packFiles

C26_Witness ==
    /\ last.kind = "togglePack"
    /\ Cardinality(selectedItems) > 1
    /\ packFiles
    /\ Cardinality(settings.sources) > 1

\* the included ancestors that covered the node of the last command before it
CoveringAncestors ==
    { A \in last.before.sel : StartsWithSep(last.node, A) }

DeselectedViaAncestor ==
    /\ last.kind = "deselect"
    /\ last.node \notin last.before.sel
    /\ CoveringAncestors # {}

NothingLeftUnder(A) ==
    \A d \in Tree : StartsWithSep(d, A) => ~isItemSelected(selectedItems, deselectedItems, d)

RECURSIVE PromotedFrom(_, _)
PromotedFrom(sel, n) ==
    IF Parent(n) = NoNode THEN sel
    ELSE LET siblings == readdir(Parent(n)) \ {n} IN
         IF siblings # {} /\ siblings \subseteq sel
         THEN PromotedFrom((sel \ Descendants(Parent(n))) \cup {Parent(n)}, Parent(n))
         ELSE sel

UncoveredFileSelected ==
    /\ last.kind = "select"
    /\ last.node \in Files
    /\ ~Covered(last.before.sel, last.node)

\* C28: after selecting a file that is not covered by an included ancestor,
\* if every sibling of the file is in included then the parent directory is in
\* included in place of its children, and the same promotion is then applied
\* to the parent with respect to its own siblings, recursively up the tree.
C28_FoldUpIsRecursive ==
    UncoveredFileSelected =>
        selectedItems = PromotedFrom(last.before.sel \cup {last.node}, last.node)

ReportedFiles == { f \in Files : isItemSelected(selectedItems, deselectedItems, f) }

\* the source files a transfer of source s copies into an empty sending directory
TransferredFrom(s, deselected) ==
    LET destPath == SendingDir \o <<basename(s)>>
        after == _copyItemRecursiveFiltered([dirs |-> {SendingDir}, files |-> EmptyMap],
                                            s, destPath, deselected, NoFailure) IN
    { s \o relative(destPath, dp) : dp \in DOMAIN after.files }

\* the source files of source s a packed backup leaves in the staging directory
BackedUpFrom(s, deselected) ==
    LET target == tempDir \o <<basename(s)>>
        copied == _copyItemRecursive(SourceFS, EmptyFS, s, target, {})
        pruned == removeDeselected(copied, deselected, s, target) IN
    { s \o relative(target, dp) : dp \in DOMAIN pruned.files }

TransferWrites == UNION { TransferredFrom(s, deselectedItems) : s \in selectedItems }

BackupWrites == UNION { BackedUpFrom(s, deselectedItems) : s \in selectedItems }

\* C29: in every reachable selection state the files the selection model
\* reports as included (isItemSelected) are exactly the files a successful
\* transfer, and a successful backup, of the flattened (included, excluded)
\* state writes; a file re-selected inside a directory that is still in
\* excluded is either not reported included or is present in the output.
C29_ReportedIsWhatIsWritten ==
    /\ TransferWrites = ReportedFiles
    /\ BackupWrites = ReportedFiles

\* C33: a failure to hash a source file or a destination file fails the
\* backup job: the file is never left out of a manifest, so no job returns
\* success with a file in the destination whose digest was not compared
\* with the digest of its source.
C33_UnhashedFileFailsJob ==
    Succeeded =>
        \A dp \in DestFiles :
            /\ dp \notin unreadable
            /\ KeyOf(dp) \in DOMAIN sourceHashes
            /\ sourceHashes[KeyOf(dp)] = SHA256(out.files[dp])

\* both calls returned, and both had passed the existence check
BothPastCheck ==
    \A j \in Jobs : race[j].pc = "done" /\ race[j].result \notin ValidationErrors

RaceSucceeded == { j \in Jobs : race[j].result = "success" }

\* the destination holds exactly the files of call j's manifest, digest for digest
DestinationIsOf(j) ==
    LET final == dst(race[j].opts)
        key(dp) == IF dp = final THEN <<basename(race[j].opts.sources[1])>>
                   ELSE relative(final, dp)
        files == FilesUnder(raceFS, final) IN
    /\ { key(dp) : dp \in files } = DOMAIN race[j].sourceHashes
    /\ \A dp \in files : race[j].sourceHashes[key(dp)] = SHA256(raceFS.files[dp])

\* C34: when two createBackup calls without force and with the same computed
\* destination are interleaved so that both pass the existence check before
\* either commits, at most one returns success, and the destination then
\* holds exactly the verified staged content of that one call.
C34_OneWinnerOwnsDestination ==
    BothPastCheck =>
        /\ Cardinality(RaceSucceeded) <= 1
        /\ \A j \in RaceSucceeded : DestinationIsOf(j)

Disjoint == selectedItems \cap deselectedItems = {}

\* C32: starting from disjoint sets, after any sequence of toggleSelection
\* calls and selectNone no path is in both included and excluded: every
\* command that starts with the two sets disjoint ends with them disjoint.
C32_DisjointnessIsKept ==
    [][(last.kind # "stored" /\ Disjoint) => Disjoint']_vars

\* a toggle that adds to both sets at once, from a loaded selection
C32_Witness ==
    /\ last.kind = "deselect"
    /\ last.before.sel # {} /\ last.before.desel # {}
    /\ last.before.sel \cap last.before.desel = {}
    /\ Cardinality(deselectedItems) > Cardinality(last.before.desel) + 1
    /\ selectedItems = last.before.sel
    /\ Disjoint

\* the node, or something in the subtree below it
InSubtree(d, node) == d = node \/ StartsWithSep(d, node)

\* C35: selecting a node that is covered by an included ancestor leaves
\* included unchanged and removes from excluded exactly the node itself and
\* the entries inside the node's subtree; excluded entries outside that
\* subtree are unchanged.
C35_CoveredSelectFrame ==
    (last.kind = "select" /\ Covered(last.before.sel, last.node)) =>
        /\ selectedItems = last.before.sel
        /\ deselectedItems = { d \in last.before.desel : ~InSubtree(d, last.node) }

\* C36: deselecting a node that is directly in included removes exactly that
\* node from included, removes every excluded entry inside its subtree, and
\* leaves all other included entries and all excluded entries outside the
\* subtree unchanged.
C36_DirectDeselectFrame ==
    (last.kind = "deselect" /\ last.node \in last.before.sel) =>
        /\ selectedItems = last.before.sel \ {last.node}
        /\ deselectedItems = { d \in last.before.desel : ~StartsWithSep(d, last.node) }

\* a directly included folder is deselected while entries are excluded both
\* inside and outside it, next to another included entry
C36_Witness ==
    /\ last.kind = "deselect" /\ last.node \in last.before.sel
    /\ Cardinality(last.before.sel) > 1
    /\ \E d \in last.before.desel : InSubtree(d, last.node)
    /\ \E d \in last.before.desel : ~InSubtree(d, last.node)
    /\ deselectedItems # {} /\ deselectedItems # last.before.desel
    /\ selectedItems = last.before.sel \ {last.node}

RECURSIVE SumOfSizes(_)
SumOfSizes(sets) ==
    IF sets = {} THEN 0
    ELSE LET one == CHOOSE x \in sets : TRUE IN
         Cardinality(one[2]) + SumOfSizes(sets \ {one})

\* per included root: the root, and under a directory root every entry of the
\* disk that is not in excluded
CountedUnder(root) ==
    {root} \cup { q \in Descendants(root) : q \notin deselectedItems }

\* C37: the selection summary's total equals, summed over every root in
\* included, 1 for the root itself plus, for a directory root, 1 for every
\* descendant filesystem entry (file or directory) that is not in excluded.
C37_SummaryTotal ==
    selectedItems # {} =>
        getSelectionCounts(selectedItems, deselectedItems).totalItems
            = SumOfSizes({ <<root, CountedUnder(root)>> : root \in selectedItems })

\* excluded entries whose covering ancestor is no longer in included
Leftover(st) == { d \in st.desel : ~Covered(st.sel, d) }

\* C38: excluded entries left behind after their covering ancestor was
\* removed from included (for example by selectNone, which clears only
\* included) are harmless: after any later selection of a directory, every
\* descendant of that directory is reported included, whatever was left over.
C38_LeftoversAreHarmless ==
    (last.kind = "select" /\ isDirectory(last.node)) =>
        \A q \in Descendants(last.node) :
            isItemSelected(selectedItems, deselectedItems, q)

\* a directory is selected while entries below it are left over in excluded
C38_Witness ==
    /\ last.kind = "select" /\ isDirectory(last.node)
    /\ \E d \in Leftover(last.before) : StartsWithSep(d, last.node)
    /\ \E d \in Leftover(last.before) : ~InSubtree(d, last.node)
    /\ \A q \in Descendants(last.node) :
          isItemSelected(selectedItems, deselectedItems, q)

\* the paths the last toggle inserted into excluded: those deselectItem adds
\* for a node that was included through an ancestor, and whatever else is
\* new in excluded after the toggle
AddedToExcluded ==
    LET st == last.before
        byDeselect ==
            IF last.kind = "deselect" /\ last.node \notin st.sel
            THEN IF isDirectory(last.node)
                 THEN addDeselectedItemsInFolder(st.desel, last.node)
                 ELSE st.desel \cup {last.node}
            ELSE st.desel IN
    (byDeselect \cup deselectedItems) \ st.desel

\* C39: every path added to excluded by a toggle is, at the moment it is
\* added, a strict descendant of some path in included, and is not itself in
\* included.
C39_ExcludedOnlyUnderIncluded ==
    IsToggle =>
        \A d \in AddedToExcluded :
            Covered(last.before.sel, d) /\ d \notin last.before.sel

\* a folder below an included ancestor is excluded with what it holds
C39_Witness ==
    /\ last.kind = "deselect"
    /\ last.node \notin last.before.sel
    /\ isDirectory(last.node)
    /\ Cardinality(AddedToExcluded) > 2
    /\ AddedToExcluded \subseteq deselectedItems
    /\ \A d \in AddedToExcluded : Covered(selectedItems, d) /\ d \notin selectedItems

SizeMismatch(c) ==
    c.error.code = "" /\ Len(c.error.message) >= 18
        /\ SubSeq(c.error.message, 1, 18) = "File size mismatch"

\* C40: a file copy fails with a size-mismatch error whenever the
\* destination's size, re-read after the write finishes, differs from the
\* source size read at the start of the copy; it succeeds only when the two
\* sizes are equal.
C40_SizeMismatchFailsCopy ==
    /\ (fileCopy.destSize # NoSize /\ fileCopy.destSize # fileCopy.totalBytes) =>
           fileCopy.pc = "thrown" /\ SizeMismatch(fileCopy)
    /\ fileCopy.pc = "resolved" =>
           fileCopy.destSize # NoSize /\ fileCopy.destSize = fileCopy.totalBytes

\* a later attempt reads a destination shorter than the source was
C40_Witness ==
    /\ fileCopy.pc = "thrown" /\ SizeMismatch(fileCopy)
    /\ fileCopy.attempt > 0
    /\ fileCopy.destSize # NoSize /\ fileCopy.destSize < fileCopy.totalBytes

-----------------------------------------------------------------------------
(* Properties of the retry policy                                           *)

\* the known-transient classes: resource busy, too many open files, file table
\* overflow, resource temporarily unavailable, interrupted call, text file busy
TransientCodes == { "EBUSY", "EMFILE", "ENFILE", "EAGAIN", "EINTR", "ETXTBSY" }

KnownTransient(error) == error.code \in TransientCodes

\* an error of another class: it has a code, and not one of the transient ones
OtherClass(error) == error.code # "" /\ error.code \notin TransientCodes

AllTransient == \A i \in 1..Len(attemptErrors) : KnownTransient(attemptErrors[i])

\* C13: an operation under the retry policy that keeps failing with a
\* transient error is attempted exactly 1 + 3 times and then the error of the
\* last attempt is thrown; an attempt that succeeds returns at once, and no
\* attempt follows it.
C13_FourAttemptsThenLastError ==
    underRetry(prim) =>
        /\ calls <= maxRetries + 1
        /\ (rpc = "thrown" /\ AllTransient) =>
               /\ calls = maxRetries + 1
               /\ Len(attemptErrors) = calls
               /\ thrown = attemptErrors[calls]
        /\ (AllTransient /\ calls < maxRetries + 1) => rpc # "thrown"
        /\ rpc = "returned" => calls = Len(attemptErrors) + 1 /\ thrown = NoError
        /\ rpc \in {"call", "backoff"} => calls = Len(attemptErrors)

C13_Witness ==
    /\ underRetry(prim) /\ rpc = "thrown" /\ AllTransient
    /\ calls = maxRetries + 1
    /\ attemptErrors[1] # attemptErrors[calls]

\* C14: an operation that fails with an error outside the known-transient
\* classes is not retried, whatever the text of its message: that failure is
\* the last attempt and its error is the one thrown.
C14_OtherErrorsNeverRetried ==
    \A i \in 1..Len(attemptErrors) :
        OtherClass(attemptErrors[i]) =>
            /\ i = Len(attemptErrors)
            /\ rpc = "thrown"
            /\ thrown = attemptErrors[i]

\* C15: every filesystem primitive runs under the retry policy, so one
\* transient failure of a primitive does not reach the caller.
C15_OneTransientFailureIsRetried ==
    (rpc = "thrown" /\ Len(attemptErrors) = 1) => ~KnownTransient(attemptErrors[1])

-----------------------------------------------------------------------------
(* Properties of sendFiles                                                  *)

Failed(log) == { i \in 1..Len(log) : ~log[i].ok }

\* C16: sendFiles tries every source in order, also after a failure, and
\* returns successCount + errorCount = number of sources with exactly one
\* error string for each source that failed.
C16_EverySourceTriedAndCounted ==
    /\ sendPc = "loop" => /\ Len(sendLog) = sendIdx - 1
                          /\ results.successCount + results.errorCount = sendIdx - 1
    /\ sendPc = "returned" =>
          /\ Len(sendLog) = Len(sendOpts.sources)
          /\ \A i \in 1..Len(sendLog) : sendLog[i].source = sendOpts.sources[i]
          /\ results.successCount + results.errorCount = Len(sendOpts.sources)
          /\ results.errorCount = Cardinality(Failed(sendLog))
          /\ Len(results.errors) = results.errorCount
          /\ \A i \in 1..Len(sendLog) :
                Cardinality({ k \in 1..Len(results.errors) :
                                results.errors[k][2] = sendLog[i].source })
                    = IF sendLog[i].ok THEN 0 ELSE 1

C16_Witness ==
    /\ sendPc = "returned"
    /\ Len(sendLog) = 2
    /\ ~sendLog[1].ok /\ sendLog[2].ok
    /\ sendLog[1].after # sendLog[1].before
    /\ results.successCount = 1

\* what one pass of the loop changed under the sending directory
Changed(e) ==
    { dp \in DOMAIN e.after.files :
        dp \notin DOMAIN e.before.files \/ e.before.files[dp] # e.after.files[dp] }

ExcludedFromSend(f) == \E d \in sendOpts.deselected : Under(f, d)

\* C17: when the transfer of a root succeeds, a file under the root is written
\* to sendingDir/leafName/relative path exactly when it is neither an excluded
\* path nor under one; nothing else is written.
C17_TransferWritesAllButExcluded ==
    \A i \in 1..Len(sendLog) :
        sendLog[i].ok =>
            LET e == sendLog[i]
                target(f) == SendingDir \o <<basename(e.source)>> \o relative(e.source, f)
                under == { f \in Files : Under(f, e.source) } IN
            /\ \A f \in under :
                  IF ExcludedFromSend(f)
                  THEN target(f) \notin Changed(e)
                  ELSE /\ target(f) \in DOMAIN e.after.files
                       /\ e.after.files[target(f)] = Content(f)
            /\ Changed(e) \subseteq { target(f) : f \in under }

C17_Witness ==
    /\ sendPc = "returned"
    /\ sendOpts.sources = <<Root>>
    /\ sendOpts.deselected = { <<"r","a">> }
    /\ sendLog[1].ok
    /\ Changed(sendLog[1]) =
          { SendingDir \o f : f \in { <<"r","d">>, <<"r","e","c.txt">> } }

====
